---- MODULE Spec2Model ----
(***************************************************************************)
(* Friend-request engine and notification store of SweatCheck              *)
(* (src/services/db_service.py, class DatabaseService).                    *)
(*                                                                         *)
(* The relational store is modelled table by table: friends is a bag of    *)
(* (user_id, friend_id) rows, friend_requests and notifications are sets   *)
(* of rows that carry their SERIAL id.  Every public method runs inside    *)
(* get_session(): its statements act on the session's working copy of the  *)
(* store, a normal exit (early return included) commits that copy and an   *)
(* exception rolls it back and is re-raised.  Each s.execute(...) and the  *)
(* final commit may raise (store fault); the faulting statement is an      *)
(* input of the action.                                                    *)
(***************************************************************************)
EXTENDS Integers, Sequences, FiniteSets, Bags, TLC

(* ------------------------------ bounds -------------------------------- *)

\* Largest value the sequence behind notifications.id may issue.
MaxNotifId == 3

\* In the notification-store specification the three engine operations stop
\* one id earlier: what is explored there is what is done to the rows.
MaxEngineNotifId == MaxNotifId - 1

(* ------------------------------ users --------------------------------- *)

\* SQL NULL in a TIMESTAMP column (timestamps themselves are >= 0).
NULL == -1

\* The users table: three registered users.  Nothing modelled here inserts,
\* updates or deletes a user.
Users == {1, 2, 3}

\* users.email of user u, stored trimmed and lower-cased by create_user.
Email(u) == <<"u", ToString(u)>>

\* users.nick of user u.
Nick(u) == "nick" \o ToString(u)

\* The same address as a user would type it: padded and in capitals.
Typed(u) == <<" ", "U", ToString(u), " ">>

\* Texts handed to the methods that take an email.
EmailInputs ==
  {Email(u) : u \in Users} \cup {Typed(u) : u \in Users}
    \cup {<< >>, <<" ">>, <<"u", "0">>}

IsSpace(c) == c = " "

\* str.lower() on one character.
LowerChar(c) == IF c = "U" THEN "u" ELSE c

RECURSIVE LStrip(_)
\* str.lstrip(): drop leading whitespace.
LStrip(s) ==
  IF s # << >> /\ IsSpace(Head(s)) THEN LStrip(Tail(s)) ELSE s

RECURSIVE RStrip(_)
\* str.rstrip(): drop trailing whitespace.
RStrip(s) ==
  IF s # << >> /\ IsSpace(s[Len(s)]) THEN RStrip(SubSeq(s, 1, Len(s) - 1)) ELSE s

\* (email or "").strip().lower()
NormalizeEmail(s) ==
  LET t == RStrip(LStrip(s)) IN [i \in 1..Len(t) |-> LowerChar(t[i])]

\* Variant of UsersByEmail: the WHERE email = :e clause is missing.
UsersByEmail_NoWhere(e) == Users

\* SELECT ... FROM users WHERE email = :e  (rows found, as a set of ids).
UsersByEmail(e) == {u \in Users : Email(u) = e}

(* ------------------------------ store --------------------------------- *)

VARIABLES
  friends,                  \* table friends: bag of <<user_id, friend_id>>
  friend_requests,          \* table friend_requests: set of rows
  notifications,            \* table notifications: set of rows
  friend_requests_id_seq,   \* last value issued for friend_requests.id
  notifications_id_seq,     \* last value issued for notifications.id
  now,                      \* last CURRENT_TIMESTAMP a committed row was stamped with
  sessions,                 \* open transaction of each concurrent session
  signed_url_cache,         \* app.storage.user["signed_url_cache"]: object path -> entry
  clock                     \* time.time(), in whole seconds

vars ==
  <<friends, friend_requests, notifications, friend_requests_id_seq,
    notifications_id_seq, now, sessions, signed_url_cache, clock>>

\* Concurrent sessions (one per browser session; each call opens its own
\* transaction through session_local()).
Sessions == {"s1", "s2"}

\* A session with no transaction open.
Idle ==
  [op |-> "idle", pc |-> "idle", user_id |-> 0, other |-> 0, request_id |-> 0,
   t |-> 0, ins |-> {}, del |-> {}, upd |-> {}, notes |-> {}]

\* The committed store, as one value a session starts from.
Store ==
  [friends |-> friends,
   friend_requests |-> friend_requests,
   notifications |-> notifications,
   friend_requests_id_seq |-> friend_requests_id_seq,
   notifications_id_seq |-> notifications_id_seq]

\* The three tables of a store value (what a transaction commits or undoes).
Tables(db) ==
  [friends |-> db.friends,
   friend_requests |-> db.friend_requests,
   notifications |-> db.notifications]

\* Fault input: the commit at the end of the session block raises.
AtCommit == 6

\* Fault input 0: nothing raises; k in 1..5: the k-th s.execute reached raises.
NoFault == 0

(* --------------------------- SQL statements --------------------------- *)

\* Variant of SelectFriend: friend_id is bound to :u as well.
SelectFriend_BindsUserTwice(db, u, f) == BagIn(<<u, u>>, db.friends)

\* SELECT 1 FROM friends WHERE user_id=:u AND friend_id=:f
SelectFriend(db, u, f) == BagIn(<<u, f>>, db.friends)

\* Variant of InsertFriend: the ON CONFLICT DO NOTHING clause is missing and
\* the table has no unique constraint.
InsertFriend_NoConflictClause(db, u, f) ==
  [db EXCEPT !.friends = @ (+) SetToBag({<<u, f>>})]

\* INSERT INTO friends(user_id, friend_id) VALUES (:u,:f) ON CONFLICT DO NOTHING
InsertFriend(db, u, f) ==
  IF BagIn(<<u, f>>, db.friends)
  THEN db
  ELSE [db EXCEPT !.friends = @ (+) SetToBag({<<u, f>>})]

\* Variant of DeleteFriend: the AND friend_id=:f condition is missing.
DeleteFriend_AllOfUser(db, u, f) ==
  [db EXCEPT !.friends = [p \in {x \in DOMAIN @ : x[1] # u} |-> @[p]]]

\* DELETE FROM friends WHERE user_id=:u AND friend_id=:f
DeleteFriend(db, u, f) ==
  [db EXCEPT !.friends = [p \in DOMAIN @ \ {<<u, f>>} |-> @[p]]]

\* Variant of SelectRequest: the WHERE id=:id clause is missing.
SelectRequest_NoWhere(db, id) == db.friend_requests

\* SELECT requester_id, addressee_id, status FROM friend_requests WHERE id=:id
SelectRequest(db, id) == {q \in db.friend_requests : q.id = id}

\* Variant of UpsertRequest: a plain INSERT, without the ON CONFLICT clause
\* (and without the unique key that would reject the second row).
UpsertRequest_NoConflictClause(db, r, a, t) ==
  LET id == db.friend_requests_id_seq + 1
  IN [db EXCEPT
        !.friend_requests_id_seq = id,
        !.friend_requests = @ \cup
           {[id |-> id, requester_id |-> r, addressee_id |-> a,
             status |-> "pending", created_at |-> t, responded_at |-> NULL]}]

\* Variant of UpsertRequest: DO UPDATE SET status='pending', created_at=...
\* without responded_at=NULL.
UpsertRequest_KeepsRespondedAt(db, r, a, t) ==
  LET hit == {q \in db.friend_requests : q.requester_id = r /\ q.addressee_id = a}
      id == db.friend_requests_id_seq + 1
  IN IF hit = {}
     THEN [db EXCEPT
             !.friend_requests_id_seq = id,
             !.friend_requests = @ \cup
                {[id |-> id, requester_id |-> r, addressee_id |-> a,
                  status |-> "pending", created_at |-> t, responded_at |-> NULL]}]
     ELSE [db EXCEPT !.friend_requests =
             (@ \ hit) \cup {[q EXCEPT !.status = "pending", !.created_at = t] : q \in hit}]


\* Variant of UpsertRequest: ON CONFLICT (requester_id, addressee_id) DO NOTHING.
UpsertRequest_DoNothing(db, r, a, t) ==
  LET hit == {q \in db.friend_requests : q.requester_id = r /\ q.addressee_id = a}
      id == db.friend_requests_id_seq + 1
  IN IF hit = {}
     THEN [db EXCEPT
             !.friend_requests_id_seq = id,
             !.friend_requests = @ \cup
                {[id |-> id, requester_id |-> r, addressee_id |-> a,
                  status |-> "pending", created_at |-> t, responded_at |-> NULL]}]
     ELSE db


\* Variant of UpsertRequest: the row of the pair is deleted and inserted
\* anew, so a request sent again takes the next id.
UpsertRequest_Reinserts(db, r, a, t) ==
  LET hit == {q \in db.friend_requests : q.requester_id = r /\ q.addressee_id = a}
      id == db.friend_requests_id_seq + 1
  IN [db EXCEPT
        !.friend_requests_id_seq = id,
        !.friend_requests = (@ \ hit) \cup
           {[id |-> id, requester_id |-> r, addressee_id |-> a,
             status |-> "pending", created_at |-> t, responded_at |-> NULL]}]

\* INSERT INTO friend_requests ... ON CONFLICT (requester_id, addressee_id)
\* DO UPDATE SET status='pending', created_at=CURRENT_TIMESTAMP, responded_at=NULL.
\* A new row takes the next id; a conflicting row keeps the id it has.
UpsertRequest(db, r, a, t) ==
  LET hit == {q \in db.friend_requests : q.requester_id = r /\ q.addressee_id = a}
      id == db.friend_requests_id_seq + 1
      fresh == [id |-> id, requester_id |-> r, addressee_id |-> a,
                status |-> "pending", created_at |-> t, responded_at |-> NULL]
      reset(q) == [q EXCEPT !.status = "pending", !.created_at = t,
                            !.responded_at = NULL]
  IN IF hit = {}
     THEN [db EXCEPT !.friend_requests_id_seq = id,
                     !.friend_requests = @ \cup {fresh}]
     ELSE [db EXCEPT !.friend_requests =
                       (@ \ hit) \cup {reset(q) : q \in hit}]

\* Variant of UpdateRequestStatus: SET status=:s only.
UpdateRequestStatus_NoRespondedAt(db, id, s, t) ==
  [db EXCEPT !.friend_requests =
     {IF q.id = id THEN [q EXCEPT !.status = s] ELSE q : q \in @}]

\* Variant of UpdateRequestStatus: the WHERE id=:id clause is missing.
UpdateRequestStatus_NoWhere(db, id, s, t) ==
  [db EXCEPT !.friend_requests =
     {[q EXCEPT !.status = s, !.responded_at = t] : q \in @}]

\* UPDATE friend_requests SET status=:s, responded_at=CURRENT_TIMESTAMP WHERE id=:id
UpdateRequestStatus(db, id, s, t) ==
  [db EXCEPT !.friend_requests =
     {IF q.id = id THEN [q EXCEPT !.status = s, !.responded_at = t] ELSE q : q \in @}]

\* Variant of InsertNotification: the row is stored as already read.
InsertNotification_Read(db, uid, type, payload, t) ==
  LET id == db.notifications_id_seq + 1
  IN [db EXCEPT
        !.notifications_id_seq = id,
        !.notifications = @ \cup
           {[id |-> id, user_id |-> uid, type |-> type, payload |-> payload,
             is_read |-> TRUE, created_at |-> t]}]

\* INSERT INTO notifications(user_id, type, payload) VALUES (...);
\* is_read defaults to FALSE and created_at to CURRENT_TIMESTAMP.
InsertNotification(db, uid, type, payload, t) ==
  LET id == db.notifications_id_seq + 1
  IN [db EXCEPT
        !.notifications_id_seq = id,
        !.notifications = @ \cup
           {[id |-> id, user_id |-> uid, type |-> type, payload |-> payload,
             is_read |-> FALSE, created_at |-> t]}]

(* ----------------------------- sessions ------------------------------- *)

\* The method returns (ok, msg) from inside or after the session block.
Return(db, ok, msg) == [db |-> db, raised |-> FALSE, ok |-> ok, msg |-> msg]

\* A statement raised: control leaves the session block with an exception.
Raise(db) == [db |-> db, raised |-> TRUE, ok |-> FALSE, msg |-> "exception"]

\* Variant of Rollback: the session's work stays in the store.
Rollback_KeepsWork(pre, db) == db

\* session.rollback(): the session's work is dropped and the store is as
\* committed before the block.
Rollback(pre, db) == pre

\* Variant of GetSession: the except branch commits instead of rolling back.
GetSession_CommitsOnError(pre, out, fault) ==
  IF out.raised THEN out
  ELSE IF fault = AtCommit THEN Raise(out.db)
  ELSE out

\* get_session(): commit on a normal exit of the block; on an exception
\* (in the block or in the commit) roll back and re-raise.
GetSession(pre, out, fault) ==
  IF out.raised THEN [out EXCEPT !.db = Rollback(pre, out.db)]
  ELSE IF fault = AtCommit THEN Raise(Rollback(pre, out.db))
  ELSE out

(* ----------------------------- methods -------------------------------- *)

\* Variant of SameUser: the self check is missing.
SameUser_Skipped(found_id, user_id) == FALSE

\* addressee_id == requester_id  (fid == user_id in add_friend_by_email)
SameUser(found_id, user_id) == found_id = user_id


\* Variant of SendFriendRequestBlock: a request that is still pending is not
\* sent again.
SendFriendRequestBlock_RefusesPending(db, requester_id, e, t, fault) ==
  IF fault = 1 THEN Raise(db) ELSE
  LET addressee == UsersByEmail(e) IN
  IF addressee = {} THEN Return(db, FALSE, "Nie znaleziono uzytkownika o takim emailu.") ELSE
  LET addressee_id == CHOOSE u \in addressee : TRUE IN
  IF SameUser(addressee_id, requester_id) THEN Return(db, FALSE, "Nie mozesz zaprosic siebie.") ELSE
  IF fault = 2 THEN Raise(db) ELSE
  IF SelectFriend(db, requester_id, addressee_id)
  THEN Return(db, FALSE, "Jestescie juz znajomymi.") ELSE
  IF \E q \in db.friend_requests : /\ q.requester_id = requester_id
                                   /\ q.addressee_id = addressee_id
                                   /\ q.status = "pending"
  THEN Return(db, FALSE, "Zaproszenie juz wyslane.") ELSE
  IF fault = 3 THEN Raise(db) ELSE
  LET d1 == UpsertRequest(db, requester_id, addressee_id, t) IN
  IF fault = 4 THEN Raise(d1) ELSE
  LET d2 == InsertNotification(d1, addressee_id, "friend_request",
                               [from_user_id |-> requester_id], t) IN
  Return(d2, TRUE, "Wyslano zaproszenie do: " \o Nick(addressee_id))

\* Body of send_friend_request's session block (e is the normalized email).
SendFriendRequestBlock(db, requester_id, e, t, fault) ==
  IF fault = 1 THEN Raise(db) ELSE
  LET addressee == UsersByEmail(e) IN
  IF addressee = {} THEN Return(db, FALSE, "Nie znaleziono uzytkownika o takim emailu.") ELSE
  LET addressee_id == CHOOSE u \in addressee : TRUE IN
  IF SameUser(addressee_id, requester_id) THEN Return(db, FALSE, "Nie mozesz zaprosic siebie.") ELSE
  IF fault = 2 THEN Raise(db) ELSE
  IF SelectFriend(db, requester_id, addressee_id)
  THEN Return(db, FALSE, "Jestescie juz znajomymi.") ELSE
  IF fault = 3 THEN Raise(db) ELSE
  LET d1 == UpsertRequest(db, requester_id, addressee_id, t) IN
  IF fault = 4 THEN Raise(d1) ELSE
  LET d2 == InsertNotification(d1, addressee_id, "friend_request",
                               [from_user_id |-> requester_id], t) IN
  Return(d2, TRUE, "Wyslano zaproszenie do: " \o Nick(addressee_id))

\* send_friend_request(requester_id, addressee_email)
SendFriendRequest(db, requester_id, addressee_email, t, fault) ==
  LET e == NormalizeEmail(addressee_email) IN
  IF e = << >> THEN Return(db, FALSE, "Podaj email.")
  ELSE GetSession(db, SendFriendRequestBlock(db, requester_id, e, t, fault), fault)

\* Variant of NotYours: the ownership check is missing.
NotYours_Skipped(row, user_id) == FALSE

\* int(req["addressee_id"]) != user_id
NotYours(row, user_id) == row.addressee_id # user_id

\* Variant of NotActive: the status check is missing.
NotActive_Skipped(row) == FALSE

\* req["status"] != "pending"
NotActive(row) == row.status # "pending"

\* Variant of AcceptRequestBlock: the friend_accept notification goes to the
\* accepting user and names the requester.
AcceptRequestBlock_NotifiesAddressee(db, user_id, request_id, t, fault) ==
  IF fault = 1 THEN Raise(db) ELSE
  LET req == SelectRequest(db, request_id) IN
  IF req = {} THEN Return(db, FALSE, "Nie znaleziono zaproszenia.") ELSE
  LET row == CHOOSE q \in req : TRUE IN
  IF NotYours(row, user_id) THEN Return(db, FALSE, "To nie jest Twoje zaproszenie.") ELSE
  IF NotActive(row) THEN Return(db, FALSE, "To zaproszenie nie jest juz aktywne.") ELSE
  LET requester_id == row.requester_id IN
  IF fault = 2 THEN Raise(db) ELSE
  LET d1 == InsertFriend(db, user_id, requester_id) IN
  IF fault = 3 THEN Raise(d1) ELSE
  LET d2 == InsertFriend(d1, requester_id, user_id) IN
  IF fault = 4 THEN Raise(d2) ELSE
  LET d3 == UpdateRequestStatus(d2, request_id, "accepted", t) IN
  IF fault = 5 THEN Raise(d3) ELSE
  LET d4 == InsertNotification(d3, user_id, "friend_accept",
                               [by_user_id |-> requester_id], t) IN
  Return(d4, TRUE, "Zaproszenie zaakceptowane.")

\* Body of accept_request's session block.
AcceptRequestBlock(db, user_id, request_id, t, fault) ==
  IF fault = 1 THEN Raise(db) ELSE
  LET req == SelectRequest(db, request_id) IN
  IF req = {} THEN Return(db, FALSE, "Nie znaleziono zaproszenia.") ELSE
  LET row == CHOOSE q \in req : TRUE IN
  IF NotYours(row, user_id) THEN Return(db, FALSE, "To nie jest Twoje zaproszenie.") ELSE
  IF NotActive(row) THEN Return(db, FALSE, "To zaproszenie nie jest juz aktywne.") ELSE
  LET requester_id == row.requester_id IN
  IF fault = 2 THEN Raise(db) ELSE
  LET d1 == InsertFriend(db, user_id, requester_id) IN
  IF fault = 3 THEN Raise(d1) ELSE
  LET d2 == InsertFriend(d1, requester_id, user_id) IN
  IF fault = 4 THEN Raise(d2) ELSE
  LET d3 == UpdateRequestStatus(d2, request_id, "accepted", t) IN
  IF fault = 5 THEN Raise(d3) ELSE
  LET d4 == InsertNotification(d3, requester_id, "friend_accept",
                               [by_user_id |-> user_id], t) IN
  Return(d4, TRUE, "Zaproszenie zaakceptowane.")

\* accept_request(user_id, request_id)
AcceptRequest(db, user_id, request_id, t, fault) ==
  GetSession(db, AcceptRequestBlock(db, user_id, request_id, t, fault), fault)

\* Variant of DeclineRequestBlock: the two friends inserts of accept_request
\* were left in.
DeclineRequestBlock_InsertsFriends(db, user_id, request_id, t, fault) ==
  LET req == SelectRequest(db, request_id) IN
  IF req = {} THEN Return(db, FALSE, "Nie znaleziono zaproszenia.") ELSE
  LET row == CHOOSE q \in req : TRUE IN
  IF NotYours(row, user_id) THEN Return(db, FALSE, "To nie jest Twoje zaproszenie.") ELSE
  IF NotActive(row) THEN Return(db, FALSE, "To zaproszenie nie jest juz aktywne.") ELSE
  LET d0 == InsertFriend(InsertFriend(db, user_id, row.requester_id),
                         row.requester_id, user_id)
      d1 == UpdateRequestStatus(d0, request_id, "declined", t)
      d2 == InsertNotification(d1, row.requester_id, "friend_decline",
                               [by_user_id |-> user_id], t) IN
  Return(d2, TRUE, "Zaproszenie odrzucone.")

\* Body of decline_request's session block.
DeclineRequestBlock(db, user_id, request_id, t, fault) ==
  IF fault = 1 THEN Raise(db) ELSE
  LET req == SelectRequest(db, request_id) IN
  IF req = {} THEN Return(db, FALSE, "Nie znaleziono zaproszenia.") ELSE
  LET row == CHOOSE q \in req : TRUE IN
  IF NotYours(row, user_id) THEN Return(db, FALSE, "To nie jest Twoje zaproszenie.") ELSE
  IF NotActive(row) THEN Return(db, FALSE, "To zaproszenie nie jest juz aktywne.") ELSE
  LET requester_id == row.requester_id IN
  IF fault = 2 THEN Raise(db) ELSE
  LET d1 == UpdateRequestStatus(db, request_id, "declined", t) IN
  IF fault = 3 THEN Raise(d1) ELSE
  LET d2 == InsertNotification(d1, requester_id, "friend_decline",
                               [by_user_id |-> user_id], t) IN
  Return(d2, TRUE, "Zaproszenie odrzucone.")

\* decline_request(user_id, request_id)
DeclineRequest(db, user_id, request_id, t, fault) ==
  GetSession(db, DeclineRequestBlock(db, user_id, request_id, t, fault), fault)

\* Variant of RemoveFriendBlock: only the caller's own row is deleted.
RemoveFriendBlock_OneDirection(db, user_id, friend_id, fault) ==
  IF fault = 1 THEN Raise(db) ELSE
  LET d1 == DeleteFriend(db, user_id, friend_id) IN
  Return(d1, TRUE, "Usunieto znajoma.")

\* Variant of RemoveFriendBlock: removing a pair that is not in friends is
\* reported as a failure.
RemoveFriendBlock_FailsWhenAbsent(db, user_id, friend_id, fault) ==
  IF ~SelectFriend(db, user_id, friend_id)
  THEN Return(db, FALSE, "Nie jestescie znajomymi.")
  ELSE Return(DeleteFriend(DeleteFriend(db, user_id, friend_id), friend_id, user_id),
              TRUE, "Usunieto znajoma.")

\* Body of remove_friend's session block.
RemoveFriendBlock(db, user_id, friend_id, fault) ==
  IF fault = 1 THEN Raise(db) ELSE
  LET d1 == DeleteFriend(db, user_id, friend_id) IN
  IF fault = 2 THEN Raise(d1) ELSE
  LET d2 == DeleteFriend(d1, friend_id, user_id) IN
  Return(d2, TRUE, "Usunieto znajoma.")

\* remove_friend(user_id, friend_id)
RemoveFriend(db, user_id, friend_id, fault) ==
  GetSession(db, RemoveFriendBlock(db, user_id, friend_id, fault), fault)

\* Body of add_friend_by_email's session block (e is the normalized email).
AddFriendByEmailBlock(db, user_id, e, fault) ==
  IF fault = 1 THEN Raise(db) ELSE
  LET friend == UsersByEmail(e) IN
  IF friend = {} THEN Return(db, FALSE, "Nie znaleziono uzytkownika o takim emailu.") ELSE
  LET fid == CHOOSE u \in friend : TRUE IN
  IF SameUser(fid, user_id) THEN Return(db, FALSE, "Nie mozesz dodac siebie.") ELSE
  IF fault = 2 THEN Raise(db) ELSE
  LET d1 == InsertFriend(db, user_id, fid) IN
  IF fault = 3 THEN Raise(d1) ELSE
  LET d2 == InsertFriend(d1, fid, user_id) IN
  Return(d2, TRUE, "Dodano: " \o Nick(fid))

\* add_friend_by_email(user_id, friend_email)
AddFriendByEmail(db, user_id, friend_email, fault) ==
  LET e == NormalizeEmail(friend_email) IN
  IF e = << >> THEN Return(db, FALSE, "Podaj email.")
  ELSE GetSession(db, AddFriendByEmailBlock(db, user_id, e, fault), fault)


\* The workouts table: user 1 has logged two workouts, users 2 and 3 one
\* each.  when is COALESCE(performed_at, created_at); no two rows share it.
Workouts ==
  {[id |-> 1, user_id |-> 1, when |-> 10],
   [id |-> 2, user_id |-> 2, when |-> 20],
   [id |-> 3, user_id |-> 3, when |-> 30],
   [id |-> 4, user_id |-> 1, when |-> 40]}

\* get_feed_workouts: LIMIT 200
FeedLimit == 200

RECURSIVE OrderByWhenDesc(_)
\* ORDER BY COALESCE(w.performed_at, w.created_at) DESC: the rows as a list,
\* latest first.
OrderByWhenDesc(rows) ==
  IF rows = {} THEN << >> ELSE
  LET w == CHOOSE x \in rows : \A y \in rows : x.when >= y.when
  IN <<w>> \o OrderByWhenDesc(rows \ {w})

\* Variant of GetFeedWorkouts: the WHERE clause is missing, so the feed
\* shows the workouts of every user.
GetFeedWorkouts_AllUsers(db, user_id) ==
  LET f == OrderByWhenDesc(Workouts)
      m == IF FeedLimit < Len(f) THEN FeedLimit ELSE Len(f)
  IN [i \in 1..m |-> f[i] @@ [nick |-> Nick(f[i].user_id)]]

\* get_feed_workouts(user_id): SELECT w.*, u.nick FROM workouts w JOIN users u
\* ON u.id = w.user_id WHERE w.user_id = :uid OR w.user_id IN (SELECT
\* friend_id FROM friends WHERE user_id = :uid) ORDER BY COALESCE(
\* w.performed_at, w.created_at) DESC LIMIT 200, as a list of rows.
GetFeedWorkouts(db, user_id) ==
  LET rows == {w \in Workouts :
                 \/ w.user_id = user_id
                 \/ w.user_id \in {fr \in Users : BagIn(<<user_id, fr>>, db.friends)}}
      f    == OrderByWhenDesc(rows)
      m    == IF FeedLimit < Len(f) THEN FeedLimit ELSE Len(f)
  IN [i \in 1..m |-> f[i] @@ [nick |-> Nick(f[i].user_id)]]

\* unread_notifications_count(user_id): SELECT COUNT(*) ... WHERE user_id=:u AND is_read=false
UnreadNotificationsCount(db, user_id) ==
  Cardinality({n \in db.notifications : n.user_id = user_id /\ ~n.is_read})

\* Variant of UpdateNotificationsRead: the user_id=:u condition is missing.
UpdateNotificationsRead_AllUsers(db, u) ==
  [db EXCEPT !.notifications = {[n EXCEPT !.is_read = TRUE] : n \in @}]

\* Variant of UpdateNotificationsRead: SET is_read = NOT is_read on all rows
\* of the user.
UpdateNotificationsRead_Toggles(db, u) ==
  [db EXCEPT !.notifications =
     {IF n.user_id = u THEN [n EXCEPT !.is_read = ~@] ELSE n : n \in @}]

\* UPDATE notifications SET is_read=true WHERE user_id=:u AND is_read=false
UpdateNotificationsRead(db, u) ==
  [db EXCEPT !.notifications =
     {IF n.user_id = u /\ ~n.is_read THEN [n EXCEPT !.is_read = TRUE] ELSE n : n \in @}]

\* Body of mark_all_notifications_read's session block.
MarkAllNotificationsReadBlock(db, user_id, fault) ==
  IF fault = 1 THEN Raise(db) ELSE
  Return(UpdateNotificationsRead(db, user_id), TRUE, "")

\* mark_all_notifications_read(user_id).  The method has no return statement:
\* ret, the set of values it returns, is empty.
MarkAllNotificationsRead(db, user_id, fault) ==
  LET out == GetSession(db, MarkAllNotificationsReadBlock(db, user_id, fault), fault) IN
  [db |-> out.db, raised |-> out.raised, ret |-> {}]

\* Variant of SelectNotification: the AND user_id=:uid condition is missing.
SelectNotification_NoOwner(db, nid, uid) ==
  {n \in db.notifications : n.id = nid}

\* SELECT id FROM notifications WHERE id=:nid AND user_id=:uid
SelectNotification(db, nid, uid) ==
  {n \in db.notifications : n.id = nid /\ n.user_id = uid}

\* DELETE FROM notifications WHERE id=:nid AND user_id=:uid
DeleteNotificationRow(db, nid, uid) ==
  [db EXCEPT !.notifications = {n \in @ : ~(n.id = nid /\ n.user_id = uid)}]

\* Body of delete_notification's session block.
DeleteNotificationBlock(db, user_id, notification_id, fault) ==
  IF fault = 1 THEN Raise(db) ELSE
  LET note == SelectNotification(db, notification_id, user_id) IN
  IF note = {} THEN Return(db, FALSE, "Nie znaleziono powiadomienia.") ELSE
  IF fault = 2 THEN Raise(db) ELSE
  Return(DeleteNotificationRow(db, notification_id, user_id), TRUE,
         "Usunieto powiadomienie.")

\* delete_notification(user_id, notification_id)
DeleteNotification(db, user_id, notification_id, fault) ==
  GetSession(db, DeleteNotificationBlock(db, user_id, notification_id, fault), fault)

\* str.strip() on a text given as a sequence of pieces (" " is whitespace).
StripText(s) == RStrip(LStrip(s))

RECURSIVE Join(_)
\* The text as one string.
Join(s) == IF s = << >> THEN "" ELSE Head(s) \o Join(Tail(s))

RECURSIVE InsertForUsers(_, _, _, _, _)
\* INSERT INTO notifications(user_id, type, payload) SELECT u.id, :t,
\* jsonb_build_object('message', :m) FROM users u
InsertForUsers(db, us, type, payload, t) ==
  IF us = {} THEN db ELSE
  LET u == CHOOSE x \in us : \A y \in us : x <= y IN
  InsertForUsers(InsertNotification(db, u, type, payload, t), us \ {u}, type, payload, t)


\* Variant of BroadcastNotificationBlock: the type is bound as given, without
\* the fallback to admin_broadcast.
BroadcastNotificationBlock_NoDefaultType(db, type, message, t, fault) ==
  IF fault = 1 THEN Raise(db) ELSE
  Return(InsertForUsers(db, Users, type, [message |-> message], t),
         TRUE, "Wyslano powiadomienie do wszystkich.")

\* Body of broadcast_notification's session block.
BroadcastNotificationBlock(db, type, message, t, fault) ==
  IF fault = 1 THEN Raise(db) ELSE
  Return(InsertForUsers(db, Users, IF type = "" THEN "admin_broadcast" ELSE type,
                        [message |-> message], t),
         TRUE, "Wyslano powiadomienie do wszystkich.")

\* broadcast_notification(type_, message)
BroadcastNotification(db, type_, message, t, fault) ==
  LET type == Join(StripText(type_))
      msg  == Join(StripText(message)) IN
  IF msg = "" THEN Return(db, FALSE, "Wpisz tresc powiadomienia.")
  ELSE GetSession(db, BroadcastNotificationBlock(db, type, msg, t, fault), fault)

\* list_notifications(user_id, limit=30)
DefaultLimit == 30

\* Variant of OrderedBefore: ORDER BY created_at ASC.
OrderedBefore_Ascending(a, b) == a.created_at <= b.created_at

\* ORDER BY created_at DESC: row a may stand before row b.
OrderedBefore(a, b) == a.created_at >= b.created_at

\* SELECT id, type, payload, is_read, created_at
Selected(n) ==
  [id |-> n.id, type |-> n.type, payload |-> n.payload, is_read |-> n.is_read,
   created_at |-> n.created_at]

\* list_notifications(user_id, limit): the lists the SELECT may return (rows
\* of equal created_at come in either order).
ListNotifications(db, user_id, limit) ==
  LET rows   == {n \in db.notifications : n.user_id = user_id}
      k      == Cardinality(rows)
      orders == {f \in [1..k -> rows] :
                   \A i \in 1..k : \A j \in 1..k :
                     i < j => (f[i] # f[j] /\ OrderedBefore(f[i], f[j]))}
      m      == IF limit < k THEN limit ELSE k
  IN {[i \in 1..m |-> Selected(f[i])] : f \in orders}

\* get_user_by_id(user_id): the row found, as a set (empty: None).
GetUserById(user_id) ==
  {[id |-> u, nick |-> Nick(u)] : u \in {x \in Users : x = user_id}}

\* p_payload.get(key) followed by "get_user_by_id(id) if id else None".
ReferencedUser(payload, key) ==
  IF key \in DOMAIN payload /\ payload[key] # 0
  THEN GetUserById(payload[key])
  ELSE {}

\* created_at.strftime("%Y-%m-%d %H:%M") if created_at else ""
Strftime(t) == IF t = NULL THEN "" ELSE "minute " \o ToString(t)

\* Variant of Message: the nick is formatted in without the "if from_user"
\* test.
Message_NoFallback(type, payload) ==
  LET user == ReferencedUser(payload, IF type = "friend_request"
                                      THEN "from_user_id" ELSE "by_user_id")
      nick == IF user = {} THEN "None" ELSE (CHOOSE r \in user : TRUE).nick
  IN
  IF type = "friend_request" THEN "Nowe zaproszenie od **" \o nick \o "**"
  ELSE IF type = "friend_accept" THEN "**" \o nick \o "** zaakceptowal(a) Twoje zaproszenie"
  ELSE IF type = "friend_decline" THEN "**" \o nick \o "** odrzucil(a) Twoje zaproszenie"
  ELSE IF type = "admin_broadcast"
       THEN (IF "message" \in DOMAIN payload THEN payload.message ELSE "None")
  ELSE "Nieznany typ powiadomienia"

\* p["message"] of each branch of parse_notifications.
Message(type, payload) ==
  IF type = "friend_request" THEN
    LET from_user == ReferencedUser(payload, "from_user_id") IN
    IF from_user # {}
    THEN "Nowe zaproszenie od **" \o (CHOOSE r \in from_user : TRUE).nick \o "**"
    ELSE "Nowe zaproszenie"
  ELSE IF type = "friend_accept" THEN
    LET by_user == ReferencedUser(payload, "by_user_id") IN
    IF by_user # {}
    THEN "**" \o (CHOOSE r \in by_user : TRUE).nick \o "** zaakceptowal(a) Twoje zaproszenie"
    ELSE "Ktos zaakceptowal(a) Twoje zaproszenie"
  ELSE IF type = "friend_decline" THEN
    LET by_user == ReferencedUser(payload, "by_user_id") IN
    IF by_user # {}
    THEN "**" \o (CHOOSE r \in by_user : TRUE).nick \o "** odrzucil(a) Twoje zaproszenie"
    ELSE "Ktos odrzucil(a) Twoje zaproszenie"
  ELSE IF type = "admin_broadcast"
       THEN (IF "message" \in DOMAIN payload THEN payload.message ELSE "None")
  ELSE "Nieznany typ powiadomienia"

\* p["user_friendly_type"], set in the four branches that name a type.
UserFriendlyType(type) ==
  IF type = "friend_request" THEN "Zaproszenie do znajomych"
  ELSE IF type = "friend_accept" THEN "Zaakceptowano zaproszenie"
  ELSE IF type = "friend_decline" THEN "Odrzucono zaproszenie"
  ELSE "Ogloszenie od adminki"

KnownTypes == {"friend_request", "friend_accept", "friend_decline", "admin_broadcast"}

\* One pass of the loop of parse_notifications: p = dict(n) with the keys the
\* branch taken adds.
Render(n) ==
  IF n.type \in KnownTypes
  THEN n @@ [message |-> Message(n.type, n.payload),
             user_friendly_type |-> UserFriendlyType(n.type),
             user_friendly_created_at |-> Strftime(n.created_at)]
  ELSE n @@ [message |-> Message(n.type, n.payload)]

\* Variant of ParseNotifications: rows of unknown type are not appended.
ParseNotifications_SkipsUnknown(db, user_id) ==
  {[db |-> db, raised |-> FALSE,
    parsed |-> LET known == SelectSeq(l, LAMBDA n : n.type \in KnownTypes)
               IN [i \in 1..Len(known) |-> Render(known[i])]]
     : l \in ListNotifications(db, user_id, DefaultLimit)}

\* parse_notifications(user_id): the outcomes it may have, one per list the
\* fetch may return; db is the store it leaves.
ParseNotifications(db, user_id) ==
  {[db |-> db, raised |-> FALSE, parsed |-> [i \in 1..Len(l) |-> Render(l[i])]]
     : l \in ListNotifications(db, user_id, DefaultLimit)}

(* ------------------------------ actions ------------------------------- *)


\* SIGNED_URL_TTL_SECONDS = 60 * 10
SIGNED_URL_TTL_SECONDS == 600

\* Object paths handed to get_signed_url_cached; "" is no photo.
ObjectPaths == {"", "a.jpg", "b.jpg"}

\* What "get_signed_url(object_path, ...) or ''" may come to: a signed URL of
\* the storage service, or "" when it hands back none.
SignedUrls == {"", "signed1", "signed2"}

\* The cache dictionary _signed_url_cache() creates when the user's storage
\* has none.
EmptyCache == [p \in {} |-> [url |-> "", ts |-> 0]]

\* Variant of Fresh: (now - ts) <= SIGNED_URL_TTL_SECONDS.
Fresh_Inclusive(t, ts) == (t - ts) <= SIGNED_URL_TTL_SECONDS

\* (now - ts) < SIGNED_URL_TTL_SECONDS
Fresh(t, ts) == (t - ts) < SIGNED_URL_TTL_SECONDS

\* get_signed_url_cached(object_path) called at time t, when get_signed_url
\* would answer signed: the URL returned, the cache afterwards, and whether
\* get_signed_url was called.
GetSignedUrlCached(cache, object_path, t, signed) ==
  IF object_path = "" THEN [url |-> "", cache |-> cache, fetched |-> FALSE] ELSE
  IF /\ object_path \in DOMAIN cache
     /\ cache[object_path].url # ""
     /\ Fresh(t, cache[object_path].ts)
  THEN [url |-> cache[object_path].url, cache |-> cache, fetched |-> FALSE]
  ELSE [url |-> signed,
        cache |-> [p \in DOMAIN cache \cup {object_path} |->
                     IF p = object_path THEN [url |-> signed, ts |-> t] ELSE cache[p]],
        fetched |-> TRUE]

\* Request ids a caller may pass: every id issued so far and the next one,
\* which no row has.
RequestIds == 1..(friend_requests_id_seq + 1)

\* CURRENT_TIMESTAMP of the transaction that starts now: calls run one at a
\* time, so it is later than every timestamp already stored.
CurrentTimestamp == now + 1

\* The store after a call is the one its session left.
Becomes(db) ==
  /\ friends' = db.friends
  /\ friend_requests' = db.friend_requests
  /\ notifications' = db.notifications
  /\ friend_requests_id_seq' = db.friend_requests_id_seq
  /\ notifications_id_seq' = db.notifications_id_seq

Init ==
  /\ friends = EmptyBag
  /\ friend_requests = {}
  /\ notifications = {}
  /\ friend_requests_id_seq = 0
  /\ notifications_id_seq = 0
  /\ now = 0
  /\ sessions = [s \in Sessions |-> Idle]
  /\ signed_url_cache = EmptyCache
  /\ clock = 0

\* Fault inputs of each method: none, each s.execute of its block, the commit.
SendFaults == {NoFault, 1, 2, 3, 4, AtCommit}
AcceptFaults == {NoFault, 1, 2, 3, 4, 5, AtCommit}
DeclineFaults == {NoFault, 1, 2, 3, AtCommit}
RemoveFaults == {NoFault, 1, 2, AtCommit}
AddFaults == {NoFault, 1, 2, 3, AtCommit}

MarkFaults == {NoFault, 1, AtCommit}
DeleteFaults == {NoFault, 1, 2, AtCommit}
BroadcastFaults == {NoFault, 1, AtCommit}

\* Texts the broadcast form hands over as type and as message.
TypeInputs ==
  {<< >>, <<" ">>, <<"admin_broadcast">>, <<" ", "friend_request">>, <<"promo", " ">>}
MessageInputs == {<< >>, <<" ">>, <<" ", "hi">>}

\* Ids a caller may name: every id issued so far and the next one.
NotificationIds == 1..(notifications_id_seq + 1)

send_friend_request ==
  \E requester_id \in Users, addressee_email \in EmailInputs :
    \E out \in {SendFriendRequest(Store, requester_id, addressee_email,
                                  CurrentTimestamp, fault) : fault \in SendFaults} :
      /\ notifications_id_seq < MaxNotifId
      /\ Becomes(out.db)
      /\ now' = IF out.ok THEN CurrentTimestamp ELSE now
      /\ UNCHANGED <<sessions, signed_url_cache, clock>>

accept_request ==
  \E user_id \in Users, request_id \in RequestIds :
    \E out \in {AcceptRequest(Store, user_id, request_id,
                              CurrentTimestamp, fault) : fault \in AcceptFaults} :
      /\ notifications_id_seq < MaxNotifId
      /\ Becomes(out.db)
      /\ now' = IF out.ok THEN CurrentTimestamp ELSE now
      /\ UNCHANGED <<sessions, signed_url_cache, clock>>

decline_request ==
  \E user_id \in Users, request_id \in RequestIds :
    \E out \in {DeclineRequest(Store, user_id, request_id,
                               CurrentTimestamp, fault) : fault \in DeclineFaults} :
      /\ notifications_id_seq < MaxNotifId
      /\ Becomes(out.db)
      /\ now' = IF out.ok THEN CurrentTimestamp ELSE now
      /\ UNCHANGED <<sessions, signed_url_cache, clock>>

remove_friend ==
  \E user_id \in Users, friend_id \in Users :
    \E out \in {RemoveFriend(Store, user_id, friend_id, fault) : fault \in RemoveFaults} :
      /\ Becomes(out.db)
      /\ UNCHANGED <<now, sessions, signed_url_cache, clock>>

add_friend_by_email ==
  \E user_id \in Users, friend_email \in EmailInputs :
    \E out \in {AddFriendByEmail(Store, user_id, friend_email, fault) : fault \in AddFaults} :
      /\ Becomes(out.db)
      /\ UNCHANGED <<now, sessions, signed_url_cache, clock>>

mark_all_notifications_read ==
  \E user_id \in Users :
    \E out \in {MarkAllNotificationsRead(Store, user_id, fault) : fault \in MarkFaults} :
      /\ Becomes(out.db)
      /\ UNCHANGED <<now, sessions, signed_url_cache, clock>>

delete_notification ==
  \E user_id \in Users, notification_id \in NotificationIds :
    \E out \in {DeleteNotification(Store, user_id, notification_id, fault) :
                   fault \in DeleteFaults} :
      /\ Becomes(out.db)
      /\ UNCHANGED <<now, sessions, signed_url_cache, clock>>

broadcast_notification ==
  \E type_ \in TypeInputs, message \in MessageInputs :
    \E out \in {BroadcastNotification(Store, type_, message, CurrentTimestamp, fault) :
                   fault \in BroadcastFaults} :
      /\ notifications_id_seq + Cardinality(Users) <= MaxNotifId
      /\ Becomes(out.db)
      /\ now' = IF out.ok THEN CurrentTimestamp ELSE now
      /\ UNCHANGED <<sessions, signed_url_cache, clock>>

Next ==
  \/ send_friend_request
  \/ accept_request
  \/ decline_request
  \/ remove_friend
  \/ add_friend_by_email

Spec == Init /\ [][Next]_vars

\* The notification store: the operations that write notifications (the
\* three engine operations that notify, the broadcast, mark-read and delete).
NotifNext ==
  \/ notifications_id_seq < MaxEngineNotifId /\ send_friend_request
  \/ notifications_id_seq < MaxEngineNotifId /\ accept_request
  \/ notifications_id_seq < MaxEngineNotifId /\ decline_request
  \/ mark_all_notifications_read
  \/ delete_notification
  \/ broadcast_notification

SpecNotif == Init /\ [][NotifNext]_vars

\* The engine over histories one notification shorter than those of Spec:
\* the specification of the properties that apply every call, with every
\* argument, to each reachable store.
ShortNext ==
  \/ notifications_id_seq < MaxEngineNotifId /\ send_friend_request
  \/ notifications_id_seq < MaxEngineNotifId /\ accept_request
  \/ notifications_id_seq < MaxEngineNotifId /\ decline_request
  \/ remove_friend
  \/ add_friend_by_email

SpecShort == Init /\ [][ShortNext]_vars

(* ----------------------- interleaved sessions -------------------------- *)
(* accept_request, add_friend_by_email and remove_friend run by concurrent  *)
(* sessions, one s.execute per step, each in its own transaction at the     *)
(* store's default isolation (PostgreSQL, no isolation_level given to       *)
(* create_engine: READ COMMITTED).  friends, friend_requests and            *)
(* notifications hold the committed rows, which is what a statement of any  *)
(* session (a reader's SELECT included) sees; a transaction's own writes    *)
(* are in its session record until it commits.                              *)


\* Seconds between two renderings of a page.
TickSeconds == SIGNED_URL_TTL_SECONDS \div 2

\* Renderings followed.
MaxTicks == 4

\* A page is rendered and asks for the URL of a photo.
get_signed_url_cached ==
  \E object_path \in ObjectPaths, signed \in SignedUrls :
    LET out == GetSignedUrlCached(signed_url_cache, object_path, clock, signed) IN
    /\ signed_url_cache' = out.cache
    /\ UNCHANGED <<friends, friend_requests, notifications, friend_requests_id_seq,
                   notifications_id_seq, now, sessions, clock>>

\* Time passes until the next rendering.
time_passes ==
  /\ clock + TickSeconds <= MaxTicks * TickSeconds
  /\ clock' = clock + TickSeconds
  /\ UNCHANGED <<friends, friend_requests, notifications, friend_requests_id_seq,
                 notifications_id_seq, now, sessions, signed_url_cache>>

CacheNext ==
  \/ get_signed_url_cached
  \/ time_passes

\* One user's browser storage as pages are rendered over time.
SpecCache == Init /\ [][CacheNext]_vars

\* An INSERT of p waits while another open transaction has inserted p or has
\* deleted the committed row p (the unique index entry is not settled).
InsertWaits(s, p) ==
  \E o \in Sessions \ {s} : p \in sessions[o].ins \/ p \in sessions[o].del

\* INSERT INTO friends(user_id, friend_id) VALUES p ON CONFLICT DO NOTHING
ConcInsertFriend(ses, p) ==
  IF p \in ses.ins \/ (BagIn(p, friends) /\ p \notin ses.del)
  THEN ses
  ELSE [ses EXCEPT !.ins = @ \cup {p}]

\* A DELETE of the committed row p waits while another open transaction has
\* deleted it (row lock).
DeleteWaits(s, p) ==
  BagIn(p, friends) /\ \E o \in Sessions \ {s} : p \in sessions[o].del

\* DELETE FROM friends WHERE user_id=:u AND friend_id=:f, on the rows the
\* statement sees: the committed ones and the transaction's own.
ConcDeleteFriend(ses, p) ==
  IF p \in ses.ins THEN [ses EXCEPT !.ins = @ \ {p}]
  ELSE IF BagIn(p, friends) THEN [ses EXCEPT !.del = @ \cup {p}]
  ELSE ses

\* An UPDATE of request id waits while another open transaction has updated
\* that row (row lock).
UpdateWaits(s, id) ==
  \E o \in Sessions \ {s} : \E w \in sessions[o].upd : w.id = id

\* The transactions that will still take a notification id.
OpenAccepts == {o \in Sessions : sessions[o].op = "accept" /\ sessions[o].pc # "commit"}

\* The same for decline_request.
OpenDeclines == {o \in Sessions : sessions[o].op = "decline" /\ sessions[o].pc # "commit"}

\* accept_request, first statement: SELECT ... FROM friend_requests WHERE
\* id=:id and the three checks; an early return commits an empty transaction.
accept_select ==
  \E s \in Sessions, user_id \in Users, request_id \in RequestIds :
    /\ sessions[s].op = "idle"
    /\ notifications_id_seq + Cardinality(OpenAccepts \cup OpenDeclines) < MaxNotifId
    /\ LET req == SelectRequest(Store, request_id) IN
       sessions' = [sessions EXCEPT ![s] =
         IF req = {} THEN Idle ELSE
         LET row == CHOOSE q \in req : TRUE IN
         IF NotYours(row, user_id) \/ NotActive(row) THEN Idle
         ELSE [Idle EXCEPT !.op = "accept", !.pc = "insert1",
                           !.user_id = user_id, !.other = row.requester_id,
                           !.request_id = request_id, !.t = CurrentTimestamp]]
    /\ sessions'[s] # Idle
    /\ UNCHANGED <<friends, friend_requests, notifications,
                   friend_requests_id_seq, notifications_id_seq, now,
                   signed_url_cache, clock>>

\* add_friend_by_email, first statement: SELECT id, nick FROM users WHERE
\* email = :e and the self check.
add_friend_select ==
  \E s \in Sessions, user_id \in Users, friend_email \in EmailInputs :
    LET friend == UsersByEmail(NormalizeEmail(friend_email)) IN
    /\ sessions[s].op = "idle"
    /\ friend # {}
    /\ LET fid == CHOOSE u \in friend : TRUE IN
       /\ ~SameUser(fid, user_id)
       /\ sessions' = [sessions EXCEPT ![s] =
            [Idle EXCEPT !.op = "add", !.pc = "insert1",
                         !.user_id = user_id, !.other = fid]]
    /\ UNCHANGED <<friends, friend_requests, notifications,
                   friend_requests_id_seq, notifications_id_seq, now,
                   signed_url_cache, clock>>

\* INSERT INTO friends ... (:u, :f) of accept_request and add_friend_by_email.
insert_friend_1 ==
  \E s \in Sessions :
    LET ses == sessions[s]
        p == <<ses.user_id, ses.other>> IN
    /\ ses.pc = "insert1"
    /\ ~InsertWaits(s, p)
    /\ sessions' = [sessions EXCEPT ![s] =
         [ConcInsertFriend(ses, p) EXCEPT !.pc = "insert2"]]
    /\ UNCHANGED <<friends, friend_requests, notifications,
                   friend_requests_id_seq, notifications_id_seq, now,
                   signed_url_cache, clock>>

\* The mirror INSERT INTO friends ... (:f, :u).
insert_friend_2 ==
  \E s \in Sessions :
    LET ses == sessions[s]
        p == <<ses.other, ses.user_id>> IN
    /\ ses.pc = "insert2"
    /\ ~InsertWaits(s, p)
    /\ sessions' = [sessions EXCEPT ![s] =
         [ConcInsertFriend(ses, p) EXCEPT
            !.pc = IF ses.op = "accept" THEN "update" ELSE "commit"]]
    /\ UNCHANGED <<friends, friend_requests, notifications,
                   friend_requests_id_seq, notifications_id_seq, now,
                   signed_url_cache, clock>>

\* UPDATE friend_requests SET status='accepted', responded_at=CURRENT_TIMESTAMP
\* WHERE id=:id
accept_update ==
  \E s \in Sessions :
    LET ses == sessions[s] IN
    /\ ses.pc = "update"
    /\ ~UpdateWaits(s, ses.request_id)
    /\ sessions' = [sessions EXCEPT ![s] =
         [ses EXCEPT !.pc = "notify",
                     !.upd = {[id |-> ses.request_id, status |-> "accepted",
                               responded_at |-> ses.t]}]]
    /\ UNCHANGED <<friends, friend_requests, notifications,
                   friend_requests_id_seq, notifications_id_seq, now,
                   signed_url_cache, clock>>

\* INSERT INTO notifications ... 'friend_accept': the id is taken from the
\* sequence at once, the row is the transaction's until it commits.
accept_notify ==
  \E s \in Sessions :
    LET ses == sessions[s]
        d == InsertNotification([Store EXCEPT !.notifications = {}], ses.other,
                                "friend_accept", [by_user_id |-> ses.user_id], ses.t) IN
    /\ ses.pc = "notify"
    /\ notifications_id_seq' = d.notifications_id_seq
    /\ sessions' = [sessions EXCEPT ![s] =
         [ses EXCEPT !.pc = "commit", !.notes = d.notifications]]
    /\ UNCHANGED <<friends, friend_requests, notifications,
                   friend_requests_id_seq, now,
                   signed_url_cache, clock>>

\* decline_request, first statement: SELECT ... FROM friend_requests WHERE
\* id=:id and the three checks.
decline_select ==
  \E s \in Sessions, user_id \in Users, request_id \in RequestIds :
    /\ sessions[s].op = "idle"
    /\ notifications_id_seq + Cardinality(OpenAccepts \cup OpenDeclines) < MaxNotifId
    /\ LET req == SelectRequest(Store, request_id) IN
       sessions' = [sessions EXCEPT ![s] =
         IF req = {} THEN Idle ELSE
         LET row == CHOOSE q \in req : TRUE IN
         IF NotYours(row, user_id) \/ NotActive(row) THEN Idle
         ELSE [Idle EXCEPT !.op = "decline", !.pc = "decline_update",
                           !.user_id = user_id, !.other = row.requester_id,
                           !.request_id = request_id, !.t = CurrentTimestamp]]
    /\ sessions'[s] # Idle
    /\ UNCHANGED <<friends, friend_requests, notifications,
                   friend_requests_id_seq, notifications_id_seq, now,
                   signed_url_cache, clock>>

\* UPDATE friend_requests SET status='declined', responded_at=CURRENT_TIMESTAMP
\* WHERE id=:id
decline_update ==
  \E s \in Sessions :
    LET ses == sessions[s] IN
    /\ ses.pc = "decline_update"
    /\ ~UpdateWaits(s, ses.request_id)
    /\ sessions' = [sessions EXCEPT ![s] =
         [ses EXCEPT !.pc = "decline_notify",
                     !.upd = {[id |-> ses.request_id, status |-> "declined",
                               responded_at |-> ses.t]}]]
    /\ UNCHANGED <<friends, friend_requests, notifications,
                   friend_requests_id_seq, notifications_id_seq, now,
                   signed_url_cache, clock>>

\* INSERT INTO notifications ... 'friend_decline'
decline_notify ==
  \E s \in Sessions :
    LET ses == sessions[s]
        d == InsertNotification([Store EXCEPT !.notifications = {}], ses.other,
                                "friend_decline", [by_user_id |-> ses.user_id], ses.t) IN
    /\ ses.pc = "decline_notify"
    /\ notifications_id_seq' = d.notifications_id_seq
    /\ sessions' = [sessions EXCEPT ![s] =
         [ses EXCEPT !.pc = "commit", !.notes = d.notifications]]
    /\ UNCHANGED <<friends, friend_requests, notifications,
                   friend_requests_id_seq, now,
                   signed_url_cache, clock>>

\* remove_friend, first statement: DELETE FROM friends WHERE (:u, :f).
remove_delete_1 ==
  \E s \in Sessions, user_id \in Users, friend_id \in Users :
    /\ sessions[s].op = "idle"
    /\ ~DeleteWaits(s, <<user_id, friend_id>>)
    /\ sessions' = [sessions EXCEPT ![s] =
         ConcDeleteFriend([Idle EXCEPT !.op = "remove", !.pc = "delete2",
                                       !.user_id = user_id, !.other = friend_id],
                          <<user_id, friend_id>>)]
    /\ UNCHANGED <<friends, friend_requests, notifications,
                   friend_requests_id_seq, notifications_id_seq, now,
                   signed_url_cache, clock>>

\* remove_friend, second statement: DELETE FROM friends WHERE (:f, :u).
remove_delete_2 ==
  \E s \in Sessions :
    LET ses == sessions[s]
        p == <<ses.other, ses.user_id>> IN
    /\ ses.pc = "delete2"
    /\ ~DeleteWaits(s, p)
    /\ sessions' = [sessions EXCEPT ![s] =
         [ConcDeleteFriend(ses, p) EXCEPT !.pc = "commit"]]
    /\ UNCHANGED <<friends, friend_requests, notifications,
                   friend_requests_id_seq, notifications_id_seq, now,
                   signed_url_cache, clock>>

\* session.commit(): the transaction's writes become the committed rows.
session_commit ==
  \E s \in Sessions :
    LET ses == sessions[s] IN
    /\ ses.pc = "commit"
    /\ friends' = SetToBag((BagToSet(friends) \ ses.del) \cup ses.ins)
    /\ friend_requests' =
         {IF \E w \in ses.upd : w.id = q.id
          THEN LET w == CHOOSE w \in ses.upd : w.id = q.id IN
               [q EXCEPT !.status = w.status, !.responded_at = w.responded_at]
          ELSE q : q \in friend_requests}
    /\ notifications' = notifications \cup ses.notes
    /\ now' = IF ses.op \in {"accept", "decline"} /\ ses.t > now THEN ses.t ELSE now
    /\ sessions' = [sessions EXCEPT ![s] = Idle]
    /\ UNCHANGED <<friend_requests_id_seq, notifications_id_seq,
                   signed_url_cache, clock>>

\* session.rollback(): a statement or the commit raised (store fault, or the
\* store ended a lock wait by aborting this transaction); its writes are
\* dropped, a notification id it took is not given back.
session_rollback ==
  \E s \in Sessions :
    /\ sessions[s].op # "idle"
    /\ sessions' = [sessions EXCEPT ![s] = Idle]
    /\ UNCHANGED <<friends, friend_requests, notifications,
                   friend_requests_id_seq, notifications_id_seq, now,
                   signed_url_cache, clock>>

\* The store the concurrent sessions start on: user 1 has sent a request to
\* user 2 and user 3 has been added as a friend by user 2.
ConcStore ==
  AddFriendByEmail(
    SendFriendRequest([friends |-> EmptyBag, friend_requests |-> {},
                       notifications |-> {}, friend_requests_id_seq |-> 0,
                       notifications_id_seq |-> 0],
                      1, Email(2), 1, NoFault).db,
    2, Email(3), NoFault).db

ConcInit ==
  /\ friends = ConcStore.friends
  /\ friend_requests = ConcStore.friend_requests
  /\ notifications = ConcStore.notifications
  /\ friend_requests_id_seq = ConcStore.friend_requests_id_seq
  /\ notifications_id_seq = ConcStore.notifications_id_seq
  /\ now = 1
  /\ sessions = [s \in Sessions |-> Idle]
  /\ signed_url_cache = EmptyCache
  /\ clock = 0

ConcNext ==
  \/ accept_select
  \/ add_friend_select
  \/ insert_friend_1
  \/ insert_friend_2
  \/ accept_update
  \/ accept_notify
  \/ decline_select
  \/ decline_update
  \/ decline_notify
  \/ remove_delete_1
  \/ remove_delete_2
  \/ session_commit
  \/ session_rollback

SpecConc == ConcInit /\ [][ConcNext]_vars

(* ------------------------- checked properties ------------------------ *)

\* Rows of friend_requests for the ordered pair (r, a).
RequestsOf(db, r, a) ==
  {q \in db.friend_requests : q.requester_id = r /\ q.addressee_id = a}

\* The pending requests addressed to u.
PendingTo(u) ==
  {q \in friend_requests : q.addressee_id = u /\ q.status = "pending"}

\* Faults that strike accept_request after its precondition checks.
AcceptFaultsAfterChecks == {2, 3, 4, 5, AtCommit}

\* C1: in every reachable state the friends table holds the row (a,b) if
\* and only if it holds the row (b,a).
C1_FriendshipSymmetric ==
  \A p \in BagToSet(friends) : BagIn(<<p[2], p[1]>>, friends)

\* C1 witness: a request has been accepted and both rows of the pair exist.
C1_Witness ==
  \E q \in friend_requests :
    /\ q.status = "accepted"
    /\ SelectFriend(Store, q.requester_id, q.addressee_id)
    /\ SelectFriend(Store, q.addressee_id, q.requester_id)

\* C2: whenever accept_request is called by the addressee of a pending
\* request and any statement after the precondition checks (either friends
\* insert, the status update, the notification insert) or the commit raises,
\* the error reaches the caller and the committed store is the store before
\* the call: no friendship row, request still pending with responded_at
\* null, no friend_accept notification.
C2_AcceptAtomic ==
  \A u \in Users : \A q \in PendingTo(u) : \A fault \in AcceptFaultsAfterChecks :
    LET out == AcceptRequest(Store, u, q.id, CurrentTimestamp, fault) IN
    /\ out.raised
    /\ ~out.ok
    /\ Tables(out.db) = Tables(Store)
    /\ q \in out.db.friend_requests
    /\ q.responded_at = NULL

\* C2 witness: a pending request whose accept fails at the notification
\* insert, after the session has already inserted the friendship rows and
\* updated the status.
C2_Witness ==
  \E u \in Users : \E q \in PendingTo(u) :
    LET blk == AcceptRequestBlock(Store, u, q.id, CurrentTimestamp, 5) IN
    /\ blk.raised
    /\ SelectFriend(blk.db, u, q.requester_id)
    /\ ~SelectFriend(Store, u, q.requester_id)
    /\ AcceptRequest(Store, u, q.id, CurrentTimestamp, 5).raised

\* C3: accept_request called by the addressee u of a pending request returns
\* success; afterwards the request is accepted with responded_at set, both
\* friendship rows exist, and exactly one notification is new: unread, of
\* type friend_accept, for the requester, with payload by_user_id = u.
C3_AcceptPostcondition ==
  \A u \in Users : \A q \in PendingTo(u) :
    LET out == AcceptRequest(Store, u, q.id, CurrentTimestamp, NoFault)
        new == out.db.notifications \ notifications
    IN
    /\ out.ok /\ ~out.raised
    /\ \E q2 \in out.db.friend_requests :
         /\ q2.id = q.id
         /\ q2.status = "accepted"
         /\ q2.responded_at # NULL
    /\ SelectFriend(out.db, u, q.requester_id)
    /\ SelectFriend(out.db, q.requester_id, u)
    /\ notifications \subseteq out.db.notifications
    /\ Cardinality(new) = 1
    /\ \A n \in new :
         /\ n.user_id = q.requester_id
         /\ n.type = "friend_accept"
         /\ n.payload = [by_user_id |-> u]
         /\ n.is_read = FALSE

\* C3 witness: the state right after an accept: the newest notification is
\* the friend_accept for the requester and the request carries its timestamp.
C3_Witness ==
  \E q \in friend_requests : \E n \in notifications :
    /\ q.status = "accepted" /\ q.responded_at = now
    /\ n.id = notifications_id_seq /\ n.created_at = now
    /\ n.type = "friend_accept" /\ n.user_id = q.requester_id
    /\ n.payload = [by_user_id |-> q.addressee_id] /\ ~n.is_read
    /\ SelectFriend(Store, q.requester_id, q.addressee_id)
    /\ SelectFriend(Store, q.addressee_id, q.requester_id)

\* C4: accept_request and decline_request called by a user who is not the
\* addressee of the row (the requester included) return (False, message) and
\* leave friend_requests, friends and notifications unchanged.
C4_OnlyAddresseeResolves ==
  \A q \in friend_requests : \A u \in Users \ {q.addressee_id} :
    LET acc == AcceptRequest(Store, u, q.id, CurrentTimestamp, NoFault)
        dec == DeclineRequest(Store, u, q.id, CurrentTimestamp, NoFault)
    IN
    /\ ~acc.ok /\ ~acc.raised /\ Tables(acc.db) = Tables(Store)
    /\ ~dec.ok /\ ~dec.raised /\ Tables(dec.db) = Tables(Store)

\* C4 witness: a pending request whose requester tries to accept it and is
\* told it is not theirs.
C4_Witness ==
  \E q \in friend_requests :
    /\ q.status = "pending"
    /\ AcceptRequest(Store, q.requester_id, q.id, CurrentTimestamp, NoFault).msg
         = "To nie jest Twoje zaproszenie."

\* A store in which request row q has status s.
WithStatus(db, q, s) ==
  [db EXCEPT !.friend_requests = (@ \ {q}) \cup {[q EXCEPT !.status = s]}]

\* C5: accept_request and decline_request called by the addressee on a
\* request that is accepted, declined or cancelled return (False, message)
\* and leave friend_requests, friends and notifications unchanged; so a
\* second accept creates no second friend_accept notification.  The engine
\* never writes cancelled, so that case is checked on the reachable stores
\* with one row's status replaced.
C5_NonPendingIsFinal ==
  /\ \A q \in friend_requests :
       q.status # "pending" =>
         LET acc == AcceptRequest(Store, q.addressee_id, q.id, CurrentTimestamp, NoFault)
             dec == DeclineRequest(Store, q.addressee_id, q.id, CurrentTimestamp, NoFault)
         IN
         /\ ~acc.ok /\ ~acc.raised /\ Tables(acc.db) = Tables(Store)
         /\ ~dec.ok /\ ~dec.raised /\ Tables(dec.db) = Tables(Store)
  /\ \A q \in friend_requests : \A s \in {"accepted", "declined", "cancelled"} :
       LET db == WithStatus(Store, q, s)
           acc == AcceptRequest(db, q.addressee_id, q.id, CurrentTimestamp, NoFault)
           dec == DeclineRequest(db, q.addressee_id, q.id, CurrentTimestamp, NoFault)
       IN
       /\ ~acc.ok /\ ~acc.raised /\ acc.db = db
       /\ ~dec.ok /\ ~dec.raised /\ dec.db = db

\* C5 witness: an accepted request, already notified, whose addressee
\* accepts again and is told the request is no longer active.
C5_Witness ==
  \E q \in friend_requests :
    /\ q.status = "accepted"
    /\ \E n \in notifications :
         n.type = "friend_accept" /\ n.user_id = q.requester_id
    /\ AcceptRequest(Store, q.addressee_id, q.id, CurrentTimestamp, NoFault).msg
         = "To zaproszenie nie jest juz aktywne."

\* C6: accept_request and decline_request called with a request id that no
\* row has return (False, message) and leave friend_requests, friends and
\* notifications unchanged.
C6_UnknownRequestId ==
  \A u \in Users : \A id \in RequestIds :
    (\A q \in friend_requests : q.id # id) =>
      LET acc == AcceptRequest(Store, u, id, CurrentTimestamp, NoFault)
          dec == DeclineRequest(Store, u, id, CurrentTimestamp, NoFault)
      IN
      /\ ~acc.ok /\ ~acc.raised /\ Tables(acc.db) = Tables(Store)
      /\ ~dec.ok /\ ~dec.raised /\ Tables(dec.db) = Tables(Store)

\* C6 witness: a user with a pending request addressed to them accepts under
\* an id that was never issued and is told no such request exists.
C6_Witness ==
  \E u \in Users :
    /\ PendingTo(u) # {}
    /\ \A q \in friend_requests : q.id # friend_requests_id_seq + 1
    /\ AcceptRequest(Store, u, friend_requests_id_seq + 1, CurrentTimestamp, NoFault).msg
         = "Nie znaleziono zaproszenia."

\* The user a send_friend_request with this email text addresses.
Addressee(email) == CHOOSE u \in Users : Email(u) = NormalizeEmail(email)

\* C7: friend_requests holds at most one row per ordered (requester_id,
\* addressee_id) pair and ids are not shared; the rows of (a,b) and (b,a)
\* are distinct and independent: a send touches no row of another ordered
\* pair, an accept or decline touches no row but the one it names.
C7_OneRowPerOrderedPair ==
  /\ \A q1 \in friend_requests : \A q2 \in friend_requests :
       \/ q1 = q2
       \/ /\ q1.id # q2.id
          /\ <<q1.requester_id, q1.addressee_id>> # <<q2.requester_id, q2.addressee_id>>
  /\ \A r \in Users : \A email \in EmailInputs :
       LET out == SendFriendRequest(Store, r, email, CurrentTimestamp, NoFault) IN
       out.ok =>
         out.db.friend_requests \ RequestsOf(out.db, r, Addressee(email))
           = friend_requests \ RequestsOf(Store, r, Addressee(email))
  /\ \A u \in Users : \A id \in RequestIds :
       LET acc == AcceptRequest(Store, u, id, CurrentTimestamp, NoFault)
           dec == DeclineRequest(Store, u, id, CurrentTimestamp, NoFault)
       IN
       /\ {q \in acc.db.friend_requests : q.id # id} = {q \in friend_requests : q.id # id}
       /\ {q \in dec.db.friend_requests : q.id # id} = {q \in friend_requests : q.id # id}

\* C7 witness: requests in both directions between two users, one resolved
\* and the other still pending.
C7_Witness ==
  \E q1 \in friend_requests : \E q2 \in friend_requests :
    /\ q1.requester_id = q2.addressee_id
    /\ q1.addressee_id = q2.requester_id
    /\ q1.status = "declined"
    /\ q2.status = "pending"

\* C8: after send_friend_request(a, b's email), decline_request(b, id) and a
\* second send_friend_request(a, b's email) there is exactly one row for
\* (a,b), and it is pending with responded_at null.  Checked from every
\* reachable store in which the first send succeeds, and, more generally,
\* from every reachable store in which the request of a to b stands declined
\* and the two are not friends: sending again succeeds and leaves that one
\* row, with the id it had, pending with responded_at null.
C8_ResendAfterDecline ==
  /\ \A a \in Users : \A b \in Users : \A email \in {Email(b), Typed(b)} :
       LET t == CurrentTimestamp
           s1 == SendFriendRequest(Store, a, email, t, NoFault)
           id == (CHOOSE q \in RequestsOf(s1.db, a, b) : TRUE).id
           s2 == DeclineRequest(s1.db, b, id, t + 1, NoFault)
           s3 == SendFriendRequest(s2.db, a, email, t + 2, NoFault)
       IN
       s1.ok =>
         /\ s2.ok /\ s3.ok
         /\ Cardinality(RequestsOf(s3.db, a, b)) = 1
         /\ \A q \in RequestsOf(s3.db, a, b) :
              q.status = "pending" /\ q.responded_at = NULL /\ q.id = id
  /\ \A q \in friend_requests : \A email \in {Email(q.addressee_id), Typed(q.addressee_id)} :
       (q.status = "declined" /\ ~SelectFriend(Store, q.requester_id, q.addressee_id)) =>
         LET out == SendFriendRequest(Store, q.requester_id, email, CurrentTimestamp, NoFault) IN
         /\ out.ok
         /\ RequestsOf(out.db, q.requester_id, q.addressee_id)
              = {[q EXCEPT !.status = "pending", !.created_at = CurrentTimestamp,
                           !.responded_at = NULL]}

\* C8 witness: the state after send, decline, send: the addressee holds the
\* first friend_request notification, the requester the friend_decline that
\* followed it, and the single row of the pair is pending again, stamped
\* after the decline, with responded_at null.
C8_Witness ==
  \E q \in friend_requests : \E n1 \in notifications : \E n2 \in notifications :
    /\ n1.type = "friend_request" /\ n1.user_id = q.addressee_id
    /\ n1.payload = [from_user_id |-> q.requester_id]
    /\ n2.type = "friend_decline" /\ n2.user_id = q.requester_id
    /\ n2.payload = [by_user_id |-> q.addressee_id]
    /\ n1.created_at < n2.created_at
    /\ n2.created_at < q.created_at
    /\ q.status = "pending" /\ q.responded_at = NULL
    /\ RequestsOf(Store, q.requester_id, q.addressee_id) = {q}

\* C9: in every reachable state a friend request row has responded_at null
\* if and only if its status is pending.
C9_RespondedAtIffNotPending ==
  \A q \in friend_requests : (q.responded_at = NULL) <=> (q.status = "pending")

\* C9 witness: an accepted row that carries its response time beside a
\* row sent later, pending with responded_at null.
C9_Witness ==
  \E q1 \in friend_requests : \E q2 \in friend_requests :
    /\ q1.status = "accepted" /\ q1.responded_at # NULL
    /\ q2.status = "pending" /\ q2.responded_at = NULL
    /\ q1.responded_at < q2.created_at

\* C10: every successful send_friend_request(r, email of a) creates exactly
\* one notification: type friend_request, recipient a, payload
\* from_user_id = r, unread; the unread count of a rises by one and the
\* unread count of every other user stays as it was.
C10_SendNotifiesAddressee ==
  \A r \in Users : \A email \in EmailInputs :
    LET out == SendFriendRequest(Store, r, email, CurrentTimestamp, NoFault)
        a == Addressee(email)
        new == out.db.notifications \ notifications
    IN
    out.ok =>
      /\ notifications \subseteq out.db.notifications
      /\ Cardinality(new) = 1
      /\ \A n \in new :
           /\ n.user_id = a
           /\ n.type = "friend_request"
           /\ n.payload = [from_user_id |-> r]
           /\ n.is_read = FALSE
      /\ UnreadNotificationsCount(out.db, a) = UnreadNotificationsCount(Store, a) + 1
      /\ \A u \in Users \ {a} :
           UnreadNotificationsCount(out.db, u) = UnreadNotificationsCount(Store, u)

\* C10 witness: user 1 has sent a request to user 2: user 2 holds one
\* notification, an unread friend_request from user 1, and nobody else
\* holds any.
C10_Witness ==
  /\ UnreadNotificationsCount(Store, 2) = 1
  /\ \A n \in notifications :
       /\ n.user_id = 2
       /\ n.type = "friend_request"
       /\ n.payload = [from_user_id |-> 1]
  /\ \E q \in friend_requests :
       q.requester_id = 1 /\ q.addressee_id = 2 /\ q.status = "pending"

\* C11: send_friend_request whose email resolves to the requester returns
\* (False, message) and creates no friend_requests row and no notification;
\* no reachable state has a request row with requester_id = addressee_id.
C11_NoSelfRequest ==
  /\ \A r \in Users : \A email \in {Email(r), Typed(r)} :
       LET out == SendFriendRequest(Store, r, email, CurrentTimestamp, NoFault) IN
       /\ ~out.ok /\ ~out.raised
       /\ Tables(out.db) = Tables(Store)
  /\ \A q \in friend_requests : q.requester_id # q.addressee_id

\* C11 witness: a user who already has a request out types their own
\* address and is told they cannot invite themselves.
C11_Witness ==
  \E q \in friend_requests :
    SendFriendRequest(Store, q.requester_id, Typed(q.requester_id),
                      CurrentTimestamp, NoFault).msg
      = "Nie mozesz zaprosic siebie."

\* C12: send_friend_request(r, email of a) returns (False, message) whenever
\* the friendship row (r, a) exists, and then friend_requests and
\* notifications (and friends) are unchanged.
C12_AlreadyFriendsGuard ==
  \A r \in Users : \A a \in Users : \A email \in {Email(a), Typed(a)} :
    BagIn(<<r, a>>, friends) =>
      LET out == SendFriendRequest(Store, r, email, CurrentTimestamp, NoFault) IN
      /\ ~out.ok /\ ~out.raised
      /\ Tables(out.db) = Tables(Store)

\* C12 witness: two users are friends, the request between them is declined,
\* and a new send is refused because they are friends.
C12_Witness ==
  \E q \in friend_requests :
    /\ q.status = "declined"
    /\ BagIn(<<q.requester_id, q.addressee_id>>, friends)
    /\ SendFriendRequest(Store, q.requester_id, Email(q.addressee_id),
                         CurrentTimestamp, NoFault).msg
         = "Jestescie juz znajomymi."

\* C13: send_friend_request with an email that resolves to no user (a blank
\* one after trimming included) returns (False, message) and leaves
\* friend_requests, friends and notifications unchanged.
C13_UnknownEmail ==
  \A r \in Users : \A email \in EmailInputs :
    (\A u \in Users : Email(u) # NormalizeEmail(email)) =>
      LET out == SendFriendRequest(Store, r, email, CurrentTimestamp, NoFault) IN
      /\ ~out.ok /\ ~out.raised
      /\ Tables(out.db) = Tables(Store)

\* C13 witness: with requests and notifications in the store, a blank email
\* is answered "give an email" and an unknown one "no such user".
C13_Witness ==
  /\ friend_requests # {} /\ notifications # {}
  /\ SendFriendRequest(Store, 1, <<" ">>, CurrentTimestamp, NoFault).msg = "Podaj email."
  /\ SendFriendRequest(Store, 1, <<"u", "0">>, CurrentTimestamp, NoFault).msg
       = "Nie znaleziono uzytkownika o takim emailu."

\* C14: a successful decline_request(u, id) sets the request to declined
\* with responded_at set, creates exactly one unread friend_decline
\* notification for the requester with payload by_user_id = u, and leaves
\* friends unchanged.
C14_DeclinePostcondition ==
  \A u \in Users : \A q \in PendingTo(u) :
    LET out == DeclineRequest(Store, u, q.id, CurrentTimestamp, NoFault)
        new == out.db.notifications \ notifications
    IN
    /\ out.ok /\ ~out.raised
    /\ out.db.friend_requests =
         (friend_requests \ {q})
           \cup {[q EXCEPT !.status = "declined", !.responded_at = CurrentTimestamp]}
    /\ CurrentTimestamp # NULL
    /\ out.db.friends = friends
    /\ notifications \subseteq out.db.notifications
    /\ Cardinality(new) = 1
    /\ \A n \in new :
         /\ n.user_id = q.requester_id
         /\ n.type = "friend_decline"
         /\ n.payload = [by_user_id |-> u]
         /\ n.is_read = FALSE

\* C14 witness: the state right after a decline between two users who are
\* friends: the newest notification is the friend_decline for the requester.
C14_Witness ==
  \E q \in friend_requests : \E n \in notifications :
    /\ q.status = "declined" /\ q.responded_at = now
    /\ n.id = notifications_id_seq /\ n.created_at = now
    /\ n.type = "friend_decline" /\ n.user_id = q.requester_id
    /\ n.payload = [by_user_id |-> q.addressee_id] /\ ~n.is_read
    /\ BagIn(<<q.addressee_id, q.requester_id>>, friends)

\* C15: remove_friend(a, b) always returns success; afterwards neither
\* (a, b) nor (b, a) is in friends, whether or not they were friends before;
\* calling it twice leaves the same state as calling it once.
C15_RemoveFriendIdempotent ==
  \A a \in Users : \A b \in Users :
    LET once  == RemoveFriend(Store, a, b, NoFault)
        twice == RemoveFriend(once.db, a, b, NoFault)
    IN
    /\ once.ok /\ ~once.raised
    /\ ~BagIn(<<a, b>>, once.db.friends)
    /\ ~BagIn(<<b, a>>, once.db.friends)
    /\ twice.ok /\ ~twice.raised
    /\ twice.db = once.db

\* C15 witness: one pair are friends and another is not, and remove_friend
\* succeeds for both.
C15_Witness ==
  \E a \in Users : \E b \in Users : \E c \in Users \ {a, b} :
    /\ BagIn(<<a, b>>, friends) /\ BagIn(<<b, a>>, friends)
    /\ ~BagIn(<<a, c>>, friends) /\ ~BagIn(<<c, a>>, friends)
    /\ RemoveFriend(Store, a, b, NoFault).ok
    /\ RemoveFriend(Store, a, b, NoFault).db.friends # friends
    /\ RemoveFriend(Store, a, c, NoFault).ok

\* C16: remove_friend(a, b) leaves every friend_requests row and every
\* notification unchanged, and leaves the friendship rows of every other
\* pair unchanged; an accepted request between a and b stays accepted.
C16_RemoveFriendFrame ==
  \A a \in Users : \A b \in Users :
    LET out == RemoveFriend(Store, a, b, NoFault) IN
    /\ out.db.friend_requests = friend_requests
    /\ out.db.notifications = notifications
    /\ \A p \in (Users \X Users) \ {<<a, b>>, <<b, a>>} :
         CopiesIn(p, out.db.friends) = CopiesIn(p, friends)
    /\ \A q \in RequestsOf(Store, a, b) \cup RequestsOf(Store, b, a) :
         q.status = "accepted" => q \in out.db.friend_requests

\* C16 witness: a pair whose request is accepted are no longer friends,
\* while one of them still has another friend.
C16_Witness ==
  \E q \in friend_requests : \E c \in Users \ {q.requester_id, q.addressee_id} :
    /\ q.status = "accepted"
    /\ ~BagIn(<<q.requester_id, q.addressee_id>>, friends)
    /\ ~BagIn(<<q.addressee_id, q.requester_id>>, friends)
    /\ BagIn(<<q.requester_id, c>>, friends)
    /\ BagIn(<<c, q.requester_id>>, friends)

\* C17: adding a mutual friendship that is already present (accept_request
\* on a pending request between users who are already friends, or
\* add_friend_by_email repeated) leaves the friendship rows unchanged, and
\* each (user_id, friend_id) pair occurs at most once in friends.
C17_NoDuplicateFriendship ==
  /\ \A p \in Users \X Users : CopiesIn(p, friends) <= 1
  /\ \A u \in Users : \A q \in PendingTo(u) :
       (BagIn(<<u, q.requester_id>>, friends) /\ BagIn(<<q.requester_id, u>>, friends))
         => AcceptRequest(Store, u, q.id, CurrentTimestamp, NoFault).db.friends = friends
  /\ \A u \in Users : \A f \in Users \ {u} : \A email \in {Email(f), Typed(f)} :
       LET once  == AddFriendByEmail(Store, u, email, NoFault)
           twice == AddFriendByEmail(once.db, u, email, NoFault)
       IN
       /\ once.ok /\ twice.ok
       /\ twice.db.friends = once.db.friends
       /\ (BagIn(<<u, f>>, friends) /\ BagIn(<<f, u>>, friends))
            => once.db.friends = friends

\* C17 witness: two users are friends while a request between them is
\* pending, and the addressee accepts it.
C17_Witness ==
  \E u \in Users : \E q \in PendingTo(u) :
    /\ BagIn(<<u, q.requester_id>>, friends)
    /\ BagIn(<<q.requester_id, u>>, friends)
    /\ AcceptRequest(Store, u, q.id, CurrentTimestamp, NoFault).ok

\* C18: every step that adds a row (a, b) to friends also moves a request
\* between a and b from pending to accepted.
C18_FriendsOnlyOnAcceptance ==
  [][\A a \in Users : \A b \in Users :
       (~BagIn(<<a, b>>, friends) /\ BagIn(<<a, b>>, friends')) =>
         \E q \in friend_requests : \E q2 \in friend_requests' :
           /\ {q.requester_id, q.addressee_id} = {a, b}
           /\ q.status = "pending"
           /\ q2.id = q.id
           /\ q2.status = "accepted"]_vars

\* The step taken is a successful send_friend_request by requester r.
SentBy(r) ==
  \E email \in EmailInputs :
    LET out == SendFriendRequest(Store, r, email, CurrentTimestamp, NoFault) IN
    out.ok /\ Becomes(out.db)

\* The step taken is a successful accept_request(u, id).
AcceptedBy(u, id) ==
  LET out == AcceptRequest(Store, u, id, CurrentTimestamp, NoFault) IN
  out.ok /\ Becomes(out.db)

\* The step taken is a successful decline_request(u, id).
DeclinedBy(u, id) ==
  LET out == DeclineRequest(Store, u, id, CurrentTimestamp, NoFault) IN
  out.ok /\ Becomes(out.db)

\* C19: a request's status changes only as absent -> pending or
\* non-pending -> pending (by a send of its requester), pending -> accepted
\* or pending -> declined (by its addressee); never directly between
\* accepted and declined, and never out of pending except by the addressee.
C19_LegalStatusTransitions ==
  [][\A q2 \in friend_requests' :
       LET old == {q \in friend_requests : q.id = q2.id} IN
       /\ old = {} => (q2.status = "pending" /\ SentBy(q2.requester_id))
       /\ \A q \in old :
            q.status # q2.status =>
              \/ /\ q.status # "pending" /\ q2.status = "pending"
                 /\ SentBy(q.requester_id)
              \/ /\ q.status = "pending" /\ q2.status = "accepted"
                 /\ AcceptedBy(q.addressee_id, q.id)
              \/ /\ q.status = "pending" /\ q2.status = "declined"
                 /\ DeclinedBy(q.addressee_id, q.id)]_vars

\* C19 witness: a request that was accepted is pending again: its requester
\* holds the friend_accept notification of its addressee, older than the
\* row's created_at (send, accept, remove_friend, send).
C19_Witness ==
  \E q \in friend_requests : \E n \in notifications :
    /\ q.status = "pending"
    /\ n.type = "friend_accept"
    /\ n.user_id = q.requester_id
    /\ n.payload = [by_user_id |-> q.addressee_id]
    /\ n.created_at < q.created_at

\* C20: with accept_request, add_friend_by_email and remove_friend running
\* in concurrent sessions, statements interleaved, no committed state (and
\* so no reader's SELECT) has a friendship row (a, b) without (b, a).
C20_NoDanglingFriendship ==
  \A a \in Users : \A b \in Users :
    BagIn(<<a, b>>, friends) => BagIn(<<b, a>>, friends)

\* C21: a pending request is resolved at most once: with accept_request and
\* decline_request running concurrently on it, one pending period yields at
\* most one friend_accept or friend_decline notification (the request of the
\* interleaved specification is pending once and is never sent again).
C21_ResolvedAtMostOnce ==
  \A q \in friend_requests :
    Cardinality({n \in notifications :
                   /\ n.type \in {"friend_accept", "friend_decline"}
                   /\ n.user_id = q.requester_id
                   /\ n.payload = [by_user_id |-> q.addressee_id]}) <= 1

\* What the caller of a method sees of its outcome.
Answer(out) == [ok |-> out.ok, msg |-> out.msg, raised |-> out.raised]

\* C22: delete_notification(u, n) removes notification n only if its
\* recipient is u and then removes exactly that row; if n does not exist or
\* belongs to another user it returns the same (False, message) in both cases
\* and leaves the notification store unchanged.
C22_DeleteOwnerOnly ==
  \A u \in Users : \A nid \in NotificationIds :
    LET out     == DeleteNotification(Store, u, nid, NoFault)
        own     == {n \in notifications : n.id = nid /\ n.user_id = u}
        missing == DeleteNotification(Store, u, notifications_id_seq + 1, NoFault)
    IN
    IF own # {}
    THEN /\ out.ok /\ ~out.raised
         /\ out.db.notifications = notifications \ own
         /\ Cardinality(own) = 1
    ELSE /\ ~out.ok /\ ~out.raised
         /\ Tables(out.db) = Tables(Store)
         /\ Answer(out) = Answer(missing)

\* C22 witness: a notification has been deleted (its id is missing below the
\* sequence value) and another user's notification is still there, which
\* the first user cannot delete.
C22_Witness ==
  \E nid \in 1..notifications_id_seq : \E n \in notifications :
    \E u \in Users \ {n.user_id} :
      /\ \A m \in notifications : m.id # nid
      /\ ~DeleteNotification(Store, u, n.id, NoFault).ok
      /\ DeleteNotification(Store, n.user_id, n.id, NoFault).ok

\* C23: mark_all_notifications_read(u) leaves unread_notifications_count(u)
\* = 0, changes nothing but the is_read flag of u's unread rows, and leaves
\* every notification of every other user unchanged.
C23_MarkAllReadFrame ==
  \A u \in Users :
    LET out == MarkAllNotificationsRead(Store, u, NoFault) IN
    /\ ~out.raised
    /\ UnreadNotificationsCount(out.db, u) = 0
    /\ out.db.friends = friends
    /\ out.db.friend_requests = friend_requests
    /\ Cardinality(out.db.notifications) = Cardinality(notifications)
    /\ \A n \in notifications :
         IF n.user_id = u /\ ~n.is_read
         THEN [n EXCEPT !.is_read = TRUE] \in out.db.notifications
         ELSE n \in out.db.notifications

\* C23 witness: one user has unread notifications that the call flips while
\* another user has unread ones too, and a third row is already read.
C23_Witness ==
  \E a \in Users : \E b \in Users \ {a} :
    /\ UnreadNotificationsCount(Store, a) > 0
    /\ UnreadNotificationsCount(Store, b) > 0
    /\ \E n \in notifications : n.is_read
    /\ MarkAllNotificationsRead(Store, a, NoFault).db.notifications # notifications

\* C24: mark_all_notifications_read returns the number of rows it flipped
\* from unread to read, which is the user's unread count before the call.
C24_MarkAllReturnsCount ==
  \A u \in Users :
    MarkAllNotificationsRead(Store, u, NoFault).ret
      = {UnreadNotificationsCount(Store, u)}

\* The step taken is a successful delete_notification(u, nid).
DeletedBy(u, nid) ==
  LET out == DeleteNotification(Store, u, nid, NoFault) IN
  out.ok /\ Becomes(out.db)

\* C25: over any step, an existing notification keeps its recipient, type
\* and payload, its is_read flag only goes from false to true, and it
\* disappears only through delete_notification by its recipient;
\* remove_friend and add_friend_by_email leave the notifications alone.
C25_NotificationsAppendOnly ==
  [][/\ \A n \in notifications :
          LET after == {m \in notifications' : m.id = n.id} IN
          /\ \A m \in after :
               /\ m.user_id = n.user_id
               /\ m.type = n.type
               /\ m.payload = n.payload
               /\ m.created_at = n.created_at
               /\ n.is_read => m.is_read
          /\ after = {} => DeletedBy(n.user_id, n.id)
     /\ \A a \in Users : \A b \in Users :
          RemoveFriend(Store, a, b, NoFault).db.notifications = notifications
     /\ \A a \in Users : \A email \in EmailInputs :
          AddFriendByEmail(Store, a, email, NoFault).db.notifications = notifications
    ]_vars

\* C25 witness: a notification has been read, another has been deleted and
\* a third is unread.
C25_Witness ==
  /\ \E n \in notifications : n.is_read
  /\ \E n \in notifications : ~n.is_read
  /\ \E nid \in 1..notifications_id_seq : \A m \in notifications : m.id # nid

\* Limits handed to list_notifications.
Limits == 0..(MaxNotifId + 1)

\* C26: list_notifications(u, limit) returns only notifications whose
\* recipient is u, in non-increasing created_at order, at most limit of
\* them, and they are the limit most recent ones of u.
C26_ListNotifications ==
  \A u \in Users : \A limit \in Limits :
    \A l \in ListNotifications(Store, u, limit) :
      LET mine   == {n \in notifications : n.user_id = u}
          listed == {n \in mine : \E i \in 1..Len(l) : l[i].id = n.id}
      IN
      /\ Len(l) <= limit
      /\ Len(l) = IF Cardinality(mine) < limit THEN Cardinality(mine) ELSE limit
      /\ \A i \in 1..Len(l) : \E n \in mine : l[i] = Selected(n)
      /\ Cardinality(listed) = Len(l)
      /\ \A i \in 1..Len(l) : \A j \in 1..Len(l) :
           i < j => l[i].created_at >= l[j].created_at
      /\ \A n \in listed : \A older \in mine \ listed :
           n.created_at >= older.created_at

\* C26 witness: a user has two notifications of different age, other users
\* have some too, and a limit of 1 lists only the newer one.
C26_Witness ==
  \E n \in notifications : \E o \in notifications : \E x \in notifications :
    /\ n.user_id = o.user_id /\ n.created_at > o.created_at
    /\ x.user_id # n.user_id
    /\ ListNotifications(Store, n.user_id, 1) = {<<Selected(n)>>}

\* C27: parse_notifications(u) returns exactly one rendered record per
\* fetched notification, in the fetched order, for every notification type
\* including unknown ones, and leaves the store (every is_read flag)
\* unchanged.
C27_ParseLossless ==
  \A u \in Users : \A out \in ParseNotifications(Store, u) :
    /\ ~out.raised
    /\ out.db = Store
    /\ \E l \in ListNotifications(Store, u, DefaultLimit) :
         /\ Len(out.parsed) = Len(l)
         /\ \A i \in 1..Len(l) :
              /\ "message" \in DOMAIN out.parsed[i]
              /\ \A col \in DOMAIN l[i] : out.parsed[i][col] = l[i][col]
    /\ Len(out.parsed) = Cardinality({n \in notifications : n.user_id = u})

\* C27 witness: a user holds a notification of a type the presenter does not
\* know, and it is rendered with the placeholder message.
C27_Witness ==
  \E n \in notifications : \E out \in ParseNotifications(Store, n.user_id) :
    /\ n.type \notin KnownTypes
    /\ \E i \in 1..Len(out.parsed) :
         /\ out.parsed[i].id = n.id
         /\ out.parsed[i].message = "Nieznany typ powiadomienia"

\* Payloads whose referenced user is missing or does not resolve: no key, a
\* null id, the id of no user.
Unresolved ==
  {[message |-> "hi"], [from_user_id |-> 0], [by_user_id |-> 0],
   [from_user_id |-> 4], [by_user_id |-> 4]}

\* The message shown when the referenced user is not found.
Fallback(type) ==
  IF type = "friend_request" THEN "Nowe zaproszenie"
  ELSE IF type = "friend_accept" THEN "Ktos zaakceptowal(a) Twoje zaproszenie"
  ELSE "Ktos odrzucil(a) Twoje zaproszenie"

\* C28: rendering a friend_request, friend_accept or friend_decline
\* notification whose referenced user id is missing from the payload or does
\* not resolve to a user gives a record with the fallback message and raises
\* no error.
C28_RenderFallback ==
  /\ \A u \in Users : \A out \in ParseNotifications(Store, u) :
       /\ ~out.raised
       /\ \A i \in 1..Len(out.parsed) :
            LET p == out.parsed[i] IN
            (p.type \in {"friend_request", "friend_accept", "friend_decline"}
               /\ "from_user_id" \notin DOMAIN p.payload
               /\ "by_user_id" \notin DOMAIN p.payload)
              => p.message = Fallback(p.type)
  /\ \A n \in notifications : \A payload \in Unresolved :
       \A type \in {"friend_request", "friend_accept", "friend_decline"} :
         Render([Selected(n) EXCEPT !.type = type, !.payload = payload]).message
           = Fallback(type)

\* C28 witness: a broadcast of type friend_request has left a user a
\* friend_request notification with no from_user_id, rendered "Nowe
\* zaproszenie".
C28_Witness ==
  \E n \in notifications : \E out \in ParseNotifications(Store, n.user_id) :
    /\ n.type = "friend_request"
    /\ "from_user_id" \notin DOMAIN n.payload
    /\ \E i \in 1..Len(out.parsed) :
         out.parsed[i].id = n.id /\ out.parsed[i].message = "Nowe zaproszenie"

\* C29: every record the presenter returns carries a message, a formatted
\* timestamp and a type label, for every stored notification type (the types
\* broadcast_notification creates included).
C29_EveryRecordDisplayable ==
  \A u \in Users : \A out \in ParseNotifications(Store, u) :
    \A i \in 1..Len(out.parsed) :
      {"message", "user_friendly_created_at", "user_friendly_type"}
        \subseteq DOMAIN out.parsed[i]

\* The outcome of a call under a fault is all or nothing: an error with the
\* store as before the call, or the outcome of the call without the fault.
AllOrNothing(out, good) ==
  /\ ~good.raised
  /\ out.raised => (~out.ok /\ out.db = Store)
  /\ ~out.raised => out = good

\* C30: for send_friend_request, decline_request and remove_friend a failure
\* at any statement of the session block (or at the commit) rolls the whole
\* transaction back and re-raises; a normal exit, an early return on a
\* business-rule failure included, commits what the block did.
C30_EngineAllOrNothing ==
  /\ \A r \in Users : \A email \in EmailInputs : \A fault \in SendFaults :
       LET out  == SendFriendRequest(Store, r, email, CurrentTimestamp, fault)
           good == SendFriendRequest(Store, r, email, CurrentTimestamp, NoFault)
           blk  == SendFriendRequestBlock(Store, r, NormalizeEmail(email),
                                          CurrentTimestamp, NoFault)
       IN
       /\ AllOrNothing(out, good)
       /\ NormalizeEmail(email) # << >> =>
            /\ good = blk
            /\ fault \in {1, AtCommit} => out.raised
  /\ \A u \in Users : \A id \in RequestIds : \A fault \in DeclineFaults :
       LET out  == DeclineRequest(Store, u, id, CurrentTimestamp, fault)
           good == DeclineRequest(Store, u, id, CurrentTimestamp, NoFault)
       IN
       /\ AllOrNothing(out, good)
       /\ good = DeclineRequestBlock(Store, u, id, CurrentTimestamp, NoFault)
       /\ (fault # NoFault /\ good.ok) => out.raised
  /\ \A a \in Users : \A b \in Users : \A fault \in RemoveFaults :
       LET out  == RemoveFriend(Store, a, b, fault)
           good == RemoveFriend(Store, a, b, NoFault)
       IN
       /\ AllOrNothing(out, good)
       /\ good = RemoveFriendBlock(Store, a, b, NoFault)
       /\ fault # NoFault => out.raised

\* C30 witness: a user has a pending request and a friend: a decline that fails
\* at its notification insert has already changed the status, a remove that
\* fails at its second DELETE has already deleted one direction, a re-send by
\* a third user fails after its upsert; each call raises.
C30_Witness ==
  \E u \in Users : \E q \in PendingTo(u) : \E c \in Users \ {u, q.requester_id} :
    LET dec == DeclineRequestBlock(Store, u, q.id, CurrentTimestamp, 3)
        rem == RemoveFriendBlock(Store, u, c, 2)
        snd == SendFriendRequestBlock(Store, c, Email(q.requester_id),
                                      CurrentTimestamp, 4)
    IN
    /\ dec.raised /\ dec.db.friend_requests # friend_requests
    /\ rem.raised /\ rem.db.friends # friends
    /\ snd.raised /\ snd.db.friend_requests # friend_requests
    /\ DeclineRequest(Store, u, q.id, CurrentTimestamp, 3).raised
    /\ RemoveFriend(Store, u, c, 2).raised
    /\ SendFriendRequest(Store, c, Email(q.requester_id), CurrentTimestamp, 4).raised


\* C31: re-request after unfriending.  From every reachable store in which a
\* request of a to b is pending: accept_request(b, id) makes them friends,
\* remove_friend by either of them unfriends them and leaves the row of
\* (a,b) accepted, and send_friend_request(a, b's email) then succeeds and
\* leaves exactly one row for (a,b), the same row with the same id, pending
\* with responded_at null.  More generally, in every reachable store with an
\* accepted row whose users are not friends, sending again succeeds and
\* resets that one row without adding a second one.
C31_ReRequestAfterUnfriend ==
  /\ \A q \in friend_requests : \A rm \in {<<q.requester_id, q.addressee_id>>,
                                          <<q.addressee_id, q.requester_id>>} :
       LET a == q.requester_id
           b == q.addressee_id
           t == CurrentTimestamp
           s1 == AcceptRequest(Store, b, q.id, t, NoFault)
           s2 == RemoveFriend(s1.db, rm[1], rm[2], NoFault)
           s3 == SendFriendRequest(s2.db, a, Email(b), t + 1, NoFault)
       IN
       q.status = "pending" =>
         /\ s1.ok /\ SelectFriend(s1.db, a, b) /\ SelectFriend(s1.db, b, a)
         /\ s2.ok /\ ~SelectFriend(s2.db, a, b) /\ ~SelectFriend(s2.db, b, a)
         /\ RequestsOf(s2.db, a, b)
              = {[q EXCEPT !.status = "accepted", !.responded_at = t]}
         /\ s3.ok
         /\ s3.db.friend_requests_id_seq = friend_requests_id_seq
         /\ Cardinality(s3.db.friend_requests) = Cardinality(friend_requests)
         /\ RequestsOf(s3.db, a, b)
              = {[q EXCEPT !.status = "pending", !.created_at = t + 1,
                           !.responded_at = NULL]}
  /\ \A q \in friend_requests :
       (/\ q.status = "accepted"
        /\ ~BagIn(<<q.requester_id, q.addressee_id>>, friends)
        /\ ~BagIn(<<q.addressee_id, q.requester_id>>, friends)) =>
         LET out == SendFriendRequest(Store, q.requester_id, Email(q.addressee_id),
                                      CurrentTimestamp, NoFault) IN
         /\ out.ok
         /\ out.db.friend_requests
              = (friend_requests \ {q}) \cup
                  {[q EXCEPT !.status = "pending", !.created_at = CurrentTimestamp,
                             !.responded_at = NULL]}

\* C31 witness: the request of a to b was accepted and the two have since
\* been unfriended: the row is still accepted, with the time of the answer,
\* the requester holds the friend_accept notification, and neither
\* friendship row is there.
C31_Witness ==
  \E q \in friend_requests : \E n \in notifications :
    /\ q.status = "accepted" /\ q.responded_at # NULL
    /\ n.type = "friend_accept" /\ n.user_id = q.requester_id
    /\ n.payload = [by_user_id |-> q.addressee_id]
    /\ ~BagIn(<<q.requester_id, q.addressee_id>>, friends)
    /\ ~BagIn(<<q.addressee_id, q.requester_id>>, friends)


\* The friend_request notifications in db that r's requests left with a.
RequestNotes(db, r, a) ==
  {n \in db.notifications : /\ n.type = "friend_request" /\ n.user_id = a
                            /\ n.payload = [from_user_id |-> r]}

\* The friend_accept and friend_decline notifications in db that a's answers
\* left with r: one for each time the request of r to a left pending.
AnswerNotes(db, r, a) ==
  {n \in db.notifications : /\ n.type \in {"friend_accept", "friend_decline"}
                            /\ n.user_id = r
                            /\ n.payload = [by_user_id |-> a]}

\* C32: in every reachable store in which the request of r to a is pending
\* (and a is not already r's friend), send_friend_request(r, a's email)
\* succeeds, leaves exactly one row of the pair, the same row, still pending,
\* and adds exactly one unread friend_request notification for a; the
\* answers r holds are the same, so the count of friend_request
\* notifications from r to a grows while the count of times the request
\* left pending does not.
C32_ResendWhilePending ==
  \A q \in friend_requests : \A email \in {Email(q.addressee_id), Typed(q.addressee_id)} :
    LET r == q.requester_id
        a == q.addressee_id
        t == CurrentTimestamp
        out == SendFriendRequest(Store, r, email, t, NoFault)
        new == out.db.notifications \ notifications
    IN
    (q.status = "pending" /\ ~BagIn(<<r, a>>, friends)) =>
      /\ out.ok
      /\ out.db.friend_requests = (friend_requests \ {q}) \cup {[q EXCEPT !.created_at = t]}
      /\ RequestsOf(out.db, r, a) = {[q EXCEPT !.created_at = t]}
      /\ notifications \subseteq out.db.notifications
      /\ Cardinality(new) = 1
      /\ \A n \in new : /\ n.user_id = a /\ n.type = "friend_request"
                        /\ n.payload = [from_user_id |-> r]
                        /\ n.is_read = FALSE /\ n.created_at = t
      /\ Cardinality(RequestNotes(out.db, r, a)) = Cardinality(RequestNotes(Store, r, a)) + 1
      /\ AnswerNotes(out.db, r, a) = AnswerNotes(Store, r, a)

\* C32 witness: the request of r to a has been sent twice and never
\* answered: the row is pending, a holds two friend_request notifications
\* from r, and r holds no answer of a, so the request left pending zero
\* times and the notifications number more than that plus one.
C32_Witness ==
  \E q \in friend_requests :
    /\ q.status = "pending"
    /\ RequestsOf(Store, q.requester_id, q.addressee_id) = {q}
    /\ AnswerNotes(Store, q.requester_id, q.addressee_id) = {}
    /\ Cardinality(RequestNotes(Store, q.requester_id, q.addressee_id))
         > Cardinality(AnswerNotes(Store, q.requester_id, q.addressee_id)) + 1


\* C32 as stated, for every pair whose request is pending: sending again
\* succeeds.  It fails for a pending request between users who are friends
\* already (both sent a request and one was accepted, or add_friend_by_email
\* joined them): the friendship check comes before the upsert.
C32_ResendAlwaysSucceeds ==
  \A q \in friend_requests :
    q.status = "pending" =>
      SendFriendRequest(Store, q.requester_id, Email(q.addressee_id),
                        CurrentTimestamp, NoFault).ok

\* Crossing requests: r's request to a is pending while a's request to r has
\* been accepted, so the two are friends.
C32_PendingBetweenFriends ==
  \E q \in friend_requests : \E p \in friend_requests :
    /\ q.status = "pending"
    /\ p.requester_id = q.addressee_id /\ p.addressee_id = q.requester_id
    /\ p.status = "accepted"
    /\ BagIn(<<q.requester_id, q.addressee_id>>, friends)


\* The stores a call of user u can leave behind, whichever engine or
\* notification operation it is, whatever its arguments and wherever it
\* fails.
CallsOf(u) ==
  {SendFriendRequest(Store, u, e, CurrentTimestamp, f).db :
       e \in EmailInputs, f \in SendFaults}
    \cup {AcceptRequest(Store, u, id, CurrentTimestamp, f).db :
            id \in RequestIds, f \in AcceptFaults}
    \cup {DeclineRequest(Store, u, id, CurrentTimestamp, f).db :
            id \in RequestIds, f \in DeclineFaults}
    \cup {RemoveFriend(Store, u, v, f).db : v \in Users, f \in RemoveFaults}
    \cup {AddFriendByEmail(Store, u, e, f).db : e \in EmailInputs, f \in AddFaults}
    \cup {MarkAllNotificationsRead(Store, u, f).db : f \in MarkFaults}
    \cup {DeleteNotification(Store, u, nid, f).db :
            nid \in NotificationIds, f \in DeleteFaults}

\* C33: in every reachable state every friend request row has status
\* pending, accepted or declined, never cancelled; and no call of the
\* requester withdraws a pending request: after any operation called by
\* the requester, with any argument, the row is there with its id and is
\* still pending.
C33_NeverCancelled ==
  /\ \A q \in friend_requests : q.status \in {"pending", "accepted", "declined"}
  /\ \A q \in friend_requests :
       q.status = "pending" =>
         \A db \in CallsOf(q.requester_id) :
           \E p \in db.friend_requests :
             /\ p.id = q.id /\ p.status = "pending"
             /\ p.requester_id = q.requester_id /\ p.addressee_id = q.addressee_id
             /\ p.responded_at = NULL

\* C33 witness: a requester has two requests pending, one of them to a user
\* who is a friend already, and neither has been answered.
C33_Witness ==
  \E q \in friend_requests : \E p \in friend_requests :
    /\ q.requester_id = p.requester_id /\ q.id # p.id
    /\ q.status = "pending" /\ q.responded_at = NULL
    /\ p.status = "pending" /\ p.responded_at = NULL
    /\ BagIn(<<q.requester_id, q.addressee_id>>, friends)

\* C34: request rows are never deleted and keep their id: over every step a
\* row that exists still exists afterwards with the same id, requester and
\* addressee.  So an id read while the request was pending stays good after
\* a decline and a resend: from every reachable store with a pending request
\* q of r to a (a not yet r's friend), after decline_request(a, q.id) and
\* send_friend_request(r, a's email) both accept_request(a, q.id) and
\* decline_request(a, q.id) succeed and resolve the row as sent the second
\* time.
C34_RequestIdsStable ==
  [][/\ \A q \in friend_requests :
          \E p \in friend_requests' :
            /\ p.id = q.id
            /\ p.requester_id = q.requester_id /\ p.addressee_id = q.addressee_id
     /\ \A q \in friend_requests :
          LET r == q.requester_id
              a == q.addressee_id
              t == CurrentTimestamp
              s1 == DeclineRequest(Store, a, q.id, t, NoFault)
              s2 == SendFriendRequest(s1.db, r, Email(a), t + 1, NoFault)
              acc == AcceptRequest(s2.db, a, q.id, t + 2, NoFault)
              dec == DeclineRequest(s2.db, a, q.id, t + 2, NoFault)
              again == [q EXCEPT !.created_at = t + 1]
          IN
          (q.status = "pending" /\ ~BagIn(<<r, a>>, friends)) =>
            /\ s1.ok /\ s2.ok
            /\ RequestsOf(s2.db, r, a) = {again}
            /\ acc.ok
            /\ RequestsOf(acc.db, r, a)
                 = {[again EXCEPT !.status = "accepted", !.responded_at = t + 2]}
            /\ SelectFriend(acc.db, r, a) /\ SelectFriend(acc.db, a, r)
            /\ dec.ok
            /\ RequestsOf(dec.db, r, a)
                 = {[again EXCEPT !.status = "declined", !.responded_at = t + 2]}]_vars

\* C34 witness: a request in its second pending period under its first id:
\* the addressee holds two friend_request notifications of the requester,
\* the requester a friend_decline dated between them, and the single row of
\* the pair is pending, stamped with the second send.
C34_Witness ==
  \E q \in friend_requests : \E n1, n3 \in RequestNotes(Store, q.requester_id, q.addressee_id) :
    \E n2 \in AnswerNotes(Store, q.requester_id, q.addressee_id) :
      /\ n2.type = "friend_decline"
      /\ n1.created_at < n2.created_at /\ n2.created_at < n3.created_at
      /\ q.status = "pending" /\ q.created_at = n3.created_at
      /\ q.id <= friend_requests_id_seq
      /\ RequestsOf(Store, q.requester_id, q.addressee_id) = {q}


\* C35: notification provenance.  In every reachable state, broadcasts and
\* deletions included, a friend_request notification of recipient a naming
\* from_user_id r has a friend_requests row (r,a), and a friend_accept or
\* friend_decline notification of recipient r naming by_user_id a has a
\* friend_requests row (r,a); and no notification names its own recipient
\* in its payload.
C35_NotificationProvenance ==
  \A n \in notifications :
    /\ (n.type = "friend_request" /\ "from_user_id" \in DOMAIN n.payload) =>
         /\ RequestsOf(Store, n.payload.from_user_id, n.user_id) # {}
         /\ n.payload.from_user_id # n.user_id
    /\ (n.type \in {"friend_accept", "friend_decline"}
          /\ "by_user_id" \in DOMAIN n.payload) =>
         /\ RequestsOf(Store, n.user_id, n.payload.by_user_id) # {}
         /\ n.payload.by_user_id # n.user_id

\* C35 witness: a request was sent and answered and the friend_request
\* notification has been deleted since: the requester holds the answer of
\* the addressee, the addressee holds nothing of the requester, and the row
\* of the pair is there.
C35_Witness ==
  \E q \in friend_requests :
    /\ AnswerNotes(Store, q.requester_id, q.addressee_id) # {}
    /\ RequestNotes(Store, q.requester_id, q.addressee_id) = {}
    /\ q.status # "pending"


\* C36: in every reachable store, broadcast_notification(type_, message)
\* with a message that is not blank returns (True, ...) and adds exactly one
\* unread notification for every user, each with payload message equal to
\* the trimmed message and type equal to the trimmed type, or
\* admin_broadcast when that is blank; the rows already there, the
\* friendships and the requests are unchanged.  With a blank message it
\* returns (False, "Wpisz tresc powiadomienia.") and changes nothing.
C36_BroadcastToEveryUser ==
  \A type_ \in TypeInputs : \A message \in MessageInputs :
    LET out == BroadcastNotification(Store, type_, message, CurrentTimestamp, NoFault)
        new == out.db.notifications \ notifications
        type == IF \A i \in 1..Len(type_) : IsSpace(type_[i])
                THEN "admin_broadcast" ELSE Join(StripText(type_))
    IN
    IF \A i \in 1..Len(message) : IsSpace(message[i])
    THEN /\ ~out.ok /\ ~out.raised
         /\ out.msg = "Wpisz tresc powiadomienia."
         /\ out.db = Store
    ELSE /\ out.ok /\ ~out.raised
         /\ notifications \subseteq out.db.notifications
         /\ Cardinality(new) = Cardinality(Users)
         /\ \A u \in Users : \E n \in new : n.user_id = u
         /\ \A n \in new : /\ n.is_read = FALSE
                           /\ n.payload = [message |-> Join(StripText(message))]
                           /\ n.type = type
                           /\ n.type # ""
         /\ out.db.friends = friends
         /\ out.db.friend_requests = friend_requests
         /\ out.db.friend_requests_id_seq = friend_requests_id_seq

\* C36 witness: a broadcast of " hi" has gone out: every user holds a
\* notification with payload message "hi", all of one type and one
\* timestamp, and there are as many notifications as users.
C36_Witness ==
  /\ Cardinality(notifications) = Cardinality(Users)
  /\ \A u \in Users : \E n \in notifications :
       /\ n.user_id = u
       /\ n.payload = [message |-> "hi"]
       /\ n.type = "admin_broadcast"
  /\ \A n \in notifications : \A m \in notifications : n.created_at = m.created_at


\* The users whose workouts get_feed_workouts(u) shows on store db.
FeedOwners(db, u) ==
  LET feed == GetFeedWorkouts(db, u) IN {feed[i].user_id : i \in DOMAIN feed}

\* The pairs <<u, v>> such that get_feed_workouts(u) shows workouts of v on
\* store db.
Visible(db) == UNION {{<<u, v>> : v \in FeedOwners(db, u)} : u \in Users}

\* C37: get_feed_workouts(u) returns only workouts whose owner is u or a
\* user v with the friendship row (u, v).  So, from every reachable store,
\* no call of send_friend_request, decline_request or remove_friend and no
\* failed call, wherever it fails, makes anyone's workouts visible to
\* anyone; a successful accept_request or add_friend_by_email does so only
\* between the two users it joins; and after remove_friend in either direction u's feed shows
\* nothing of v and v's feed nothing of u.
C37_FeedShowsFriendsOnly ==
  /\ \A u \in Users :
       LET feed == GetFeedWorkouts(Store, u) IN
       \A i \in DOMAIN feed :
         /\ \E w \in Workouts : w.id = feed[i].id /\ w.user_id = feed[i].user_id
         /\ \/ feed[i].user_id = u
            \/ BagIn(<<u, feed[i].user_id>>, friends)
  /\ \A old \in {Visible(Store)} : \A u \in Users :
       /\ \A db \in {SendFriendRequest(Store, u, e, CurrentTimestamp, f).db :
                       e \in EmailInputs, f \in SendFaults} :
            Visible(db) \subseteq old
       /\ \A db \in {DeclineRequest(Store, u, id, CurrentTimestamp, f).db :
                       id \in RequestIds, f \in DeclineFaults} :
            Visible(db) \subseteq old
       /\ \A db \in {RemoveFriend(Store, u, v, f).db : v \in Users, f \in RemoveFaults} :
            Visible(db) \subseteq old
       /\ \A id \in RequestIds :
            \A out \in {AcceptRequest(Store, u, id, CurrentTimestamp, f) :
                          f \in AcceptFaults} :
              Visible(out.db) \ old \subseteq
                {p \in Users \X Users :
                   /\ out.ok
                   /\ \E q \in PendingTo(u) :
                        q.id = id /\ {p[1], p[2]} = {u, q.requester_id}}
       /\ \A e \in EmailInputs :
            \A out \in {AddFriendByEmail(Store, u, e, f) : f \in AddFaults} :
              Visible(out.db) \ old \subseteq
                {p \in Users \X Users :
                   /\ out.ok
                   /\ \E v \in Users \ {u} :
                        Email(v) = NormalizeEmail(e) /\ {p[1], p[2]} = {u, v}}
  /\ \A u \in Users : \A v \in Users \ {u} :
       \A rm \in {<<u, v>>, <<v, u>>} :
         \A out \in {RemoveFriend(Store, rm[1], rm[2], NoFault)} :
           /\ out.ok
           /\ <<u, v>> \notin Visible(out.db)
           /\ <<v, u>> \notin Visible(out.db)

\* C37 witness: u sees the workouts of a friend v next to its own, and no
\* longer those of x, whose request it accepted and who has been unfriended
\* since.
C37_Witness ==
  \E u \in Users : \E v \in Users \ {u} : \E x \in Users \ {u, v} :
    /\ FeedOwners(Store, u) = {u, v}
    /\ BagIn(<<u, v>>, friends)
    /\ \E q \in friend_requests :
         /\ {q.requester_id, q.addressee_id} = {u, x}
         /\ q.status = "accepted"


\* C38: in every reachable cache, at every time, get_signed_url_cached(p):
\* for the empty path returns "" and leaves the cache alone; returns the
\* cached URL, without calling get_signed_url, exactly when p has an entry
\* whose URL is not empty and which was stored less than
\* SIGNED_URL_TTL_SECONDS ago; otherwise calls get_signed_url, stores what it
\* got under p with the current time, leaves the other entries alone and
\* returns it.  An empty URL is returned only for the empty path or straight
\* from get_signed_url, never from the cache.
C38_SignedUrlCacheFreshness ==
  \A p \in ObjectPaths : \A signed \in SignedUrls :
    LET out == GetSignedUrlCached(signed_url_cache, p, clock, signed)
        hit == /\ p \in DOMAIN signed_url_cache
               /\ signed_url_cache[p].url # ""
               /\ clock - signed_url_cache[p].ts < 600
    IN
    /\ p = "" => (out.url = "" /\ out.cache = signed_url_cache /\ ~out.fetched)
    /\ (p # "" /\ hit) =>
         /\ out.url = signed_url_cache[p].url
         /\ out.cache = signed_url_cache
         /\ ~out.fetched
    /\ (p # "" /\ ~hit) =>
         /\ out.fetched
         /\ out.url = signed
         /\ DOMAIN out.cache = DOMAIN signed_url_cache \cup {p}
         /\ out.cache[p] = [url |-> signed, ts |-> clock]
         /\ \A o \in DOMAIN signed_url_cache \ {p} : out.cache[o] = signed_url_cache[o]
    /\ out.url = "" => (p = "" \/ (out.fetched /\ signed = ""))
    /\ "" \notin DOMAIN out.cache

\* C38 witness: the cache holds a URL stored exactly SIGNED_URL_TTL_SECONDS
\* ago, a URL stored less than that ago, and, after a later call, an empty
\* URL is on record for some path.
C38_Witness ==
  \E p \in DOMAIN signed_url_cache : \E o \in DOMAIN signed_url_cache :
    /\ signed_url_cache[p].url # ""
    /\ clock - signed_url_cache[p].ts = 600
    /\ signed_url_cache[o].url = ""
    /\ clock - signed_url_cache[o].ts < 600

====
